---- MODULE Spec2Model ----
(***************************************************************************)
(* Asynchronous job-search subsystem of visa-jobs-mcp: the run store, the  *)
(* session store, the background executor of a run, the tool handlers      *)
(* start/cancel/clear_search_session/delete_user_data, and the per-user    *)
(* invocation gate.                                                        *)
(*                                                                         *)
(* Granularity.  One step of an actor is one access to shared state (a     *)
(* file read, a file write, a mutex operation) followed by the local       *)
(* computation up to the actor's next shared access.  A store helper       *)
(* called with write=true is two steps: lock+load+prune, and               *)
(* fn+prune+save+unlock.  A helper called with write=false is one step     *)
(* (lock, load, prune, read, unlock: nothing is written in between).       *)
(***************************************************************************)
EXTENDS Integers, Sequences, FiniteSets, TLC

(***************************************************************************)
(* Bounds of the model.                                                    *)
(***************************************************************************)
MaxStarts == 2
MaxCandidates == 1
MaxRetries == 1
MaxEnvCalls == 1
MaxActive == 1
MaxRequests == 3

(***************************************************************************)
(* Program constants.                                                      *)
(***************************************************************************)
defaultSearchRunTTLSeconds == 21600
defaultSearchSessionTTLSeconds == 21600
defaultSearchMaxRuns == 500
defaultSearchMaxSessions == 200
defaultSearchMaxSessionsPerUser == 20

Users == {"u1", "u2"}
RunIds == 1..MaxStarts
ClockStep == defaultSearchRunTTLSeconds
\* an unset time (the empty string of completed_at_utc) and an unset session
\* id; latest_response is modelled by the id of the session it was built from
NoTime == -1
NoSession == 0
NoHolder == <<"free">>
EmptyDoc == <<>>

VARIABLES
    now,          \* wall clock, seconds (utcNow truncated to seconds)
    runFile,      \* the persisted run document: run_id -> Run
    sessionFile,  \* the persisted session document: session_id -> Session
    runMu,        \* holder of searchRunMu
    runMuStore,   \* the document the holder of searchRunMu loaded
    sessMu,       \* holder of searchSessionMu
    sessMuStore,  \* the document the holder of searchSessionMu loaded
    nextRun,      \* number of run ids handed out by newRunID
    exec,         \* exec[r]: the background task spawned for run r
    call,         \* call[u]: the tool handler running under user u's gate
    ret,          \* the payload the last returning handler returned
    spawned,      \* history: spawned[r] = number of executors spawned for r
    enteredRunning, \* history: times the status of r was set to running
    sessionWrites,  \* history: runs whose executor saved a session record
    envMaxRuns,   \* VISA_MAX_SEARCH_RUNS
    counters,     \* history: numbers of cancel / delete / clear calls made
    userToolLocks,  \* the sync.Map of the gate: trimmed user_id -> mutex
    mutexHolder,    \* mutexHolder[m]: the request holding mutex m
    req,          \* req[i]: tool request i on its way through the gate
    task,         \* task[i]: the background task request i spawned
    seen,         \* history: the polls made and what they reported of each run
    pure,         \* the last call of a pure function: inputs and output
    given         \* the search_mode the start tools freeze into a query and
                  \* what the preferences file holds; Unknown leaves them free

storeVars == <<now, runFile, sessionFile, runMu, runMuStore, sessMu, sessMuStore,
               nextRun, exec, call, ret, spawned, enteredRunning, sessionWrites,
               envMaxRuns, counters>>

gateVars == <<userToolLocks, mutexHolder, req, task>>

auxVars == <<seen, pure, given>>

vars == <<storeVars, gateVars, auxVars>>

(***************************************************************************)
(* Helpers on documents (maps keyed by id).                                *)
(***************************************************************************)
Restrict(f, S) == [k \in S |-> f[k]]

Put(f, k, v) == [x \in (DOMAIN f) \cup {k} |-> IF x = k THEN v ELSE f[x]]

Max2(a, b) == IF a >= b THEN a ELSE b

searchRunIsTerminal(status) == status \in {"completed", "failed", "cancelled"}

searchMaxRuns == envMaxRuns

futureISO(t, seconds) == t + seconds

(***************************************************************************)
(* appendRunEvent: the event gets event_id = next_event_id, progress is    *)
(* kept only when >= 0 and clamped to 100, next_event_id is incremented.   *)
(* The at_utc and detail fields of an event are written once with the      *)
(* event and read by nothing; the model leaves them out.                   *)
(***************************************************************************)
NoProgress == -1

appendRunEvent(run, t, phase, progressPercent) ==
    LET nextEventID == run.next_event_id
        pct == IF progressPercent >= 0
               THEN (IF progressPercent > 100 THEN 100 ELSE progressPercent)
               ELSE NoProgress
        event == [event_id |-> nextEventID, phase |-> phase,
                  progress_percent |-> pct]
    IN [run EXCEPT !.events = Append(run.events, event),
                   !.next_event_id = nextEventID + 1]

(***************************************************************************)
(* pruneSearchRunsLocked: drop expired runs, then keep the searchMaxRuns   *)
(* most recent by updated_at (ties: id order).                             *)
(***************************************************************************)
RunBefore(store, a, b) ==
    \/ store[a].updated_at_utc > store[b].updated_at_utc
    \/ store[a].updated_at_utc = store[b].updated_at_utc /\ a < b

pruneSearchRunsLocked(store, t) ==
    LET valid == {r \in DOMAIN store : store[r].expires_at_utc > t}
        rank(r) == Cardinality({o \in valid : RunBefore(store, o, r)})
        kept == IF Cardinality(valid) > searchMaxRuns /\ searchMaxRuns > 0
                THEN {r \in valid : rank(r) < searchMaxRuns}
                ELSE valid
    IN Restrict(store, kept)

(***************************************************************************)
(* pruneSearchSessionsLocked and enforceUserSessionLimitLocked.            *)
(***************************************************************************)
\* search_models.go:121-127: VISA_MAX_SEARCH_SESSIONS and
\* VISA_MAX_SEARCH_SESSIONS_PER_USER, when the environment sets them
searchMaxSessions ==
    IF "max_sessions" \in DOMAIN given THEN given.max_sessions
    ELSE defaultSearchMaxSessions

searchMaxSessionsPerUser ==
    IF "max_sessions_per_user" \in DOMAIN given THEN given.max_sessions_per_user
    ELSE defaultSearchMaxSessionsPerUser

SessionBefore(store, a, b) ==
    \/ store[a].updated_at_utc > store[b].updated_at_utc
    \/ store[a].updated_at_utc = store[b].updated_at_utc /\ a < b

pruneSearchSessionsLocked(store, t) ==
    LET valid == {s \in DOMAIN store : store[s].expires_at_utc > t}
        rank(s) == Cardinality({o \in valid : SessionBefore(store, o, s)})
        kept == IF searchMaxSessions > 0 /\ Cardinality(valid) > searchMaxSessions
                THEN {s \in valid : rank(s) < searchMaxSessions}
                ELSE valid
    IN Restrict(store, kept)

\* a per-user cap that ranks the sessions of every user
enforceUserSessionLimitLockedAnyUser(store, userID) ==
    LET mine == DOMAIN store
        rank(s) == Cardinality({o \in mine : SessionBefore(store, o, s)})
        dropped == IF searchMaxSessionsPerUser <= 0
                      \/ Cardinality(mine) <= searchMaxSessionsPerUser
                   THEN {}
                   ELSE {s \in mine : rank(s) >= searchMaxSessionsPerUser}
    IN Restrict(store, (DOMAIN store) \ dropped)

enforceUserSessionLimitLocked(store, userID) ==
    LET mine == {s \in DOMAIN store : store[s].user_id = userID}
        rank(s) == Cardinality({o \in mine : SessionBefore(store, o, s)})
        dropped == IF searchMaxSessionsPerUser <= 0
                      \/ Cardinality(mine) <= searchMaxSessionsPerUser
                   THEN {}
                   ELSE {s \in mine : rank(s) >= searchMaxSessionsPerUser}
    IN Restrict(store, (DOMAIN store) \ dropped)

(***************************************************************************)
(* Actors and the initial state.                                           *)
(***************************************************************************)
ExecActor(r) == <<"exec", r>>
CallActor(u) == <<"call", u>>

IdleExec == [pc |-> "none", user |-> "", err |-> "", raw |-> 0, retries |-> 0,
             cand |-> 0, accepted |-> 0, fetches |-> 0, sessAt |-> 0]

DoneExec == [IdleExec EXCEPT !.pc = "done"]

IdleCall == [op |-> "idle", pc |-> "idle", run |-> 0, copy |-> EmptyDoc,
             removed |-> 0, rec |-> EmptyDoc]

NoRet == [tool |-> "none"]

StoreInit ==
    /\ now = 0
    /\ runFile = EmptyDoc
    /\ sessionFile = EmptyDoc
    /\ runMu = NoHolder
    /\ runMuStore = EmptyDoc
    /\ sessMu = NoHolder
    /\ sessMuStore = EmptyDoc
    /\ nextRun = 1
    /\ exec = [r \in RunIds |-> IdleExec]
    /\ call = [u \in Users |-> IdleCall]
    /\ ret = NoRet
    /\ spawned = [r \in RunIds |-> 0]
    /\ enteredRunning = [r \in RunIds |-> 0]
    /\ sessionWrites = {}
    /\ envMaxRuns = defaultSearchMaxRuns
    /\ counters = [cancel |-> 0, delete |-> 0, clear |-> 0, io |-> 0]

(***************************************************************************)
(* The environment: the calls of the clients, the failures of the disk and *)
(* the passing of time are bounded in total; the runs in flight (started   *)
(* and not yet finished) are bounded too.                                  *)
(***************************************************************************)
EnvCalls ==
    counters.cancel + counters.delete + counters.clear + counters.io
        + (now \div ClockStep)

EnvBudget == EnvCalls < MaxEnvCalls

ActiveRuns ==
    {r \in RunIds : exec[r].pc \notin {"none", "done"}}
        \cup {call[u].run : u \in {x \in Users : call[x].op = "start"}}

(***************************************************************************)
(* The clock.                                                              *)
(***************************************************************************)
Tick ==
    /\ EnvBudget
    /\ now' = now + ClockStep
    /\ UNCHANGED <<runFile, sessionFile, runMu, runMuStore, sessMu, sessMuStore,
                   nextRun, exec, call, ret, spawned, enteredRunning,
                   sessionWrites, envMaxRuns, counters>>

(***************************************************************************)
(* withSearchRunStore(write=true): first half (lock, load, prune) and the  *)
(* save of the second half.  saveSearchRuns may fail (os.WriteFile).       *)
(***************************************************************************)
RunStoreLocked(actor) ==
    /\ runMu = NoHolder
    /\ runMu' = actor
    /\ runMuStore' = pruneSearchRunsLocked(runFile, now)

\* a helper that returns without the deferred Unlock
RunStoreKept ==
    /\ runMu' = runMu
    /\ runMuStore' = runMuStore

RunStoreRelease ==
    /\ runMu' = NoHolder
    /\ runMuStore' = EmptyDoc

\* the outcome of one os.WriteFile; failures are counted up to the bound
IoResult(ok) ==
    /\ ok \/ EnvBudget
    /\ counters' = IF ok THEN counters ELSE [counters EXCEPT !.io = @ + 1]

saveSearchRunsPrunedLocked(store, ok) ==
    /\ runFile' = IF ok THEN pruneSearchRunsLocked(store, now) ELSE runFile
    /\ IoResult(ok)
    /\ RunStoreRelease

\* the document a write=false helper reads (lock, load, prune, unlock)
RunStoreRead == pruneSearchRunsLocked(runFile, now)

(***************************************************************************)
(* start: startJobSearchWithMode, after input validation.                  *)
(***************************************************************************)
NewRun(runID, userID, t) ==
    appendRunEvent(
        [run_id |-> runID, user_id |-> userID,
         status |-> "pending", created_at_utc |-> t, updated_at_utc |-> t,
         completed_at_utc |-> NoTime,
         expires_at_utc |-> futureISO(t, defaultSearchRunTTLSeconds),
         cancel_requested |-> FALSE, search_session_id |-> NoSession,
         latest_response |-> NoSession, error |-> "",
         next_event_id |-> 0, events |-> <<>>],
        t, "started", 0)

StartLock(u) ==
    /\ call[u].op = "idle"
    /\ nextRun <= MaxStarts
    /\ Cardinality(ActiveRuns) < MaxActive
    /\ RunStoreLocked(CallActor(u))
    /\ nextRun' = nextRun + 1
    /\ call' = [call EXCEPT ![u] = [IdleCall EXCEPT !.op = "start", !.pc = "save",
                                        !.run = nextRun,
                                        !.rec = NewRun(nextRun, u, now)]]
    /\ UNCHANGED <<now, runFile, sessionFile, sessMu, sessMuStore, exec, ret,
                   spawned, enteredRunning, sessionWrites, envMaxRuns, counters>>

StartSave(u, ok) ==
    /\ call[u].op = "start" /\ call[u].pc = "save"
    /\ runMu = CallActor(u)
    /\ saveSearchRunsPrunedLocked(Put(runMuStore, call[u].run, call[u].rec), ok)
    /\ IF ok
       THEN /\ exec' = [exec EXCEPT ![call[u].run].pc = "e_running"]
            /\ spawned' = [spawned EXCEPT ![call[u].run] = @ + 1]
            /\ ret' = ([tool |-> "start", ok |-> TRUE,
                                          run_id |-> call[u].run,
                                          status |-> "pending",
                                          next_cursor |-> call[u].rec.next_event_id])
       ELSE /\ ret' = ([tool |-> "start", ok |-> FALSE])
            /\ UNCHANGED <<exec, spawned>>
    /\ call' = [call EXCEPT ![u] = IdleCall]
    /\ UNCHANGED <<now, sessionFile, sessMu, sessMuStore, nextRun,
                   enteredRunning, sessionWrites, envMaxRuns>>

Start == \E u \in Users :
    \/ StartLock(u)
    \/ \E ok \in BOOLEAN : StartSave(u, ok)

(***************************************************************************)
(* The background task: executeSearchRun and, inside it,                   *)
(* executeSearchQuery.  updateRun is withSearchRunStore(write=true) around *)
(* an updater; it bumps updated_at_utc; with the run missing from the      *)
(* loaded document it returns an error and nothing is saved.  The task     *)
(* ignores every error updateRun returns.                                  *)
(***************************************************************************)
RawScanTarget == MaxCandidates
RequiredAccepted == 1

RunningUpdater(run, t) ==
    appendRunEvent([run EXCEPT !.status = "running"], t, "running", 2)

FailedUpdater(run, t, errText) ==
    appendRunEvent([run EXCEPT !.status = "failed", !.error = errText,
                               !.completed_at_utc = t],
                   t, "failed", 100)

\* a cancelled record written without its completion time
CancelledUpdaterNoCompletedAt(run, t) ==
    appendRunEvent([run EXCEPT !.status = "cancelled", !.error = ""],
                   t, "cancelled", 100)

CancelledUpdater(run, t) ==
    appendRunEvent([run EXCEPT !.status = "cancelled", !.error = "",
                               !.completed_at_utc = t],
                   t, "cancelled", 100)

\* part_008:93-106: the updater run when executeSearchQuery returned an error
ErrorUpdater(run, t, err) ==
    IF err = "cancelled" \/ run.cancel_requested
    THEN CancelledUpdater(run, t)
    ELSE FailedUpdater(run, t, err)

\* a final update that honours the cancel flag after the session was saved
CompletedUpdaterHonoursCancel(run, t, sessionID) ==
    [run EXCEPT !.status = IF run.cancel_requested THEN "cancelled"
                           ELSE "completed",
                !.search_session_id = sessionID,
                !.latest_response = sessionID, !.completed_at_utc = t,
                !.error = ""]

\* part_008:109-117
CompletedUpdater(run, t, sessionID) ==
    [run EXCEPT !.status = "completed", !.search_session_id = sessionID,
                !.latest_response = sessionID, !.completed_at_utc = t,
                !.error = ""]

updateRun(store, runID, updated, t) ==
    Put(store, runID, [updated EXCEPT !.updated_at_utc = t])

\* runCancelled: a write=false read of cancel_requested; a missing run reads false
runCancelled(runID) ==
    runID \in DOMAIN RunStoreRead /\ RunStoreRead[runID].cancel_requested

ExecUnchangedOnRead ==
    UNCHANGED <<now, runFile, runMu, runMuStore, sessionFile, sessMu,
                sessMuStore, nextRun, call, ret, spawned, enteredRunning,
                sessionWrites, envMaxRuns, counters>>

ExecUnchangedOnWrite ==
    UNCHANGED <<now, sessionFile, sessMu, sessMuStore, nextRun, call, ret,
                spawned, sessionWrites, envMaxRuns>>

RunWritePcs == {"e_running", "e_loadfail", "q_dataset", "q_dataset_warn",
                "q_scrape", "q_page_event", "q_filter", "q_desc_event",
                "q_cand_event", "q_completed", "e_error", "e_final"}

\* first half of every updateRun of the task
ExecLock(r) ==
    /\ exec[r].pc \in RunWritePcs
    /\ RunStoreLocked(ExecActor(r))
    /\ UNCHANGED <<now, runFile, sessionFile, sessMu, sessMuStore, nextRun,
                   exec, call, ret, spawned, enteredRunning, sessionWrites,
                   envMaxRuns, counters>>

\* second half of an updateRun: updater, save, unlock
ExecUpdate(r, updated, ok) ==
    /\ runMu = ExecActor(r)
    /\ IF r \in DOMAIN runMuStore
       THEN saveSearchRunsPrunedLocked(updateRun(runMuStore, r, updated, now), ok)
       ELSE ok /\ runFile' = runFile /\ counters' = counters /\ RunStoreRelease

\* part_008:21-25
ExecSetRunning(r, ok) ==
    /\ exec[r].pc = "e_running"
    /\ ExecUpdate(r, RunningUpdater(runMuStore[r], now), ok)
    /\ exec' = [exec EXCEPT ![r].pc = "e_load"]
    /\ enteredRunning' = IF ok /\ r \in DOMAIN runMuStore
                         THEN [enteredRunning EXCEPT ![r] = @ + 1]
                         ELSE enteredRunning
    /\ ExecUnchangedOnWrite

(***************************************************************************)
(* The first step of executeSearchQuery: the visa types of the user.  The  *)
(* preferences file holds no entry for the user ("none"), an entry with    *)
(* visa types ("saved"), or cannot be read ("unreadable").                 *)
(***************************************************************************)
Unknown == "unknown"
searchModeVisa == "visa"
searchModeGeneral == "general"
SearchModes == {searchModeVisa, searchModeGeneral}
PreferenceFiles == {"none", "saved", "unreadable"}

\* the optional read of the preferences: a user without preferences has no
\* visa types, which is not an error; only a file that cannot be read is
getOptionalUserVisaTypes(preferences) ==
    CASE preferences = "saved" -> [err |-> "", types |-> <<"h1b">>]
      [] preferences = "none" -> [err |-> "", types |-> <<>>]
      [] OTHER -> [err |-> "preferences unavailable", types |-> <<>>]

\* search_query.go:22
applyVisaFiltering(queryMode, desiredVisaTypes) ==
    queryMode = searchModeVisa /\ Len(desiredVisaTypes) > 0

\* search_query.go:17-25
desiredVisaTypesOf(queryMode, preferences) ==
    LET loaded == getOptionalUserVisaTypes(preferences)
        filtering == applyVisaFiltering(queryMode, loaded.types)
    IN IF loaded.err # ""
       THEN [err |-> loaded.err, visa_filtering |-> FALSE, types |-> <<>>]
       ELSE [err |-> "", visa_filtering |-> filtering,
             types |-> IF filtering THEN loaded.types ELSE <<>>]

GivenModes ==
    IF given.search_mode = Unknown THEN SearchModes ELSE {given.search_mode}

GivenPreferences ==
    IF given.preferences = Unknown THEN PreferenceFiles ELSE {given.preferences}

\* part_008:27-37 loadRunByID, then search_query.go:17-25 (preferences)
ExecLoadRun(r) ==
    /\ exec[r].pc = "e_load"
    /\ runMu = NoHolder
    /\ IF r \in DOMAIN RunStoreRead
       THEN \E mode \in GivenModes, preferences \in GivenPreferences :
                LET q == desiredVisaTypesOf(mode, preferences)
                IN exec' = [exec EXCEPT ![r].pc = IF q.err = "" THEN "q_dataset"
                                                   ELSE "e_error",
                                        ![r].user = RunStoreRead[r].user_id,
                                        ![r].err = q.err]
       ELSE exec' = [exec EXCEPT ![r].pc = "e_loadfail"]
    /\ ExecUnchangedOnRead

\* part_008:29-35
ExecLoadFailed(r, ok) ==
    /\ exec[r].pc = "e_loadfail"
    /\ ExecUpdate(r, FailedUpdater(runMuStore[r], now, "unknown run_id"), ok)
    /\ exec' = [exec EXCEPT ![r] = DoneExec]
    /\ UNCHANGED enteredRunning
    /\ ExecUnchangedOnWrite

(***************************************************************************)
(* onProgress: one updateRun that appends one event.  The table gives, for *)
(* each program point that emits an event, the phase, the progress and the *)
(* point reached after it.                                                 *)
(***************************************************************************)
ScrapeProgress(e) == 15 + ((60 * e.raw) \div Max2(1, RawScanTarget))

FilterProgress(e) == 76 + ((18 * (e.cand + 1)) \div Max2(1, e.raw))

ProgressPhase(e) ==
    CASE e.pc \in {"q_dataset", "q_dataset_warn"} -> "dataset"
      [] e.pc \in {"q_scrape", "q_page_event"} -> "scrape"
      [] e.pc \in {"q_filter", "q_desc_event", "q_cand_event"} -> "filter"
      [] e.pc = "q_completed" -> "completed"

ProgressPercent(e) ==
    CASE e.pc = "q_dataset" -> 5
      [] e.pc = "q_dataset_warn" -> 8
      [] e.pc = "q_scrape" -> 15
      [] e.pc = "q_page_event" -> ScrapeProgress(e)
      [] e.pc = "q_filter" -> 76
      [] e.pc = "q_desc_event" -> 80
      [] e.pc = "q_cand_event" -> FilterProgress(e)
      [] e.pc = "q_completed" -> 100

ProgressPcs == {"q_dataset", "q_dataset_warn", "q_scrape", "q_page_event",
                "q_filter", "q_desc_event", "q_cand_event", "q_completed"}

\* the program point after the event; datasetOk is loadCompanyDataset's outcome
AfterProgress(e, datasetOk) ==
    CASE e.pc = "q_dataset" ->
             [e EXCEPT !.pc = IF datasetOk THEN "q_scrape" ELSE "q_dataset_warn"]
      [] e.pc = "q_dataset_warn" -> [e EXCEPT !.pc = "q_scrape"]
      [] e.pc = "q_scrape" -> [e EXCEPT !.pc = "q_page"]
      [] e.pc = "q_page_event" -> [e EXCEPT !.pc = "q_page"]
      [] e.pc = "q_filter" -> [e EXCEPT !.pc = "q_cand"]
      [] e.pc = "q_desc_event" -> [e EXCEPT !.pc = "q_desc_fetch"]
      [] e.pc = "q_cand_event" -> [e EXCEPT !.pc = "q_cand", !.cand = @ + 1]
      [] e.pc = "q_completed" -> [e EXCEPT !.pc = "e_final"]

ExecProgress(r, ok, datasetOk) ==
    /\ exec[r].pc \in ProgressPcs
    /\ datasetOk \/ exec[r].pc = "q_dataset"
    /\ ExecUpdate(r, appendRunEvent(runMuStore[r], now, ProgressPhase(exec[r]),
                                    ProgressPercent(exec[r])), ok)
    /\ exec' = [exec EXCEPT ![r] = AfterProgress(exec[r], datasetOk)]
    /\ UNCHANGED enteredRunning
    /\ ExecUnchangedOnWrite

(***************************************************************************)
(* The scrape loop (search_query.go:69-111).  A page request goes through  *)
(* requestWithRateLimitBackoff: probe, request, and on a throttle either   *)
(* give up (budget exhausted) or sleep in probed slices and retry.         *)
(***************************************************************************)
Cancelled(e) == [e EXCEPT !.pc = "e_error", !.err = "cancelled"]

Failed(e, errText) == [e EXCEPT !.pc = "e_error", !.err = errText]

\* loop head: condition, then the isCancelled probe
ExecPageLoop(r) ==
    /\ exec[r].pc = "q_page"
    /\ IF exec[r].raw < RawScanTarget
       THEN /\ runMu = NoHolder
            /\ exec' = [exec EXCEPT ![r] = IF runCancelled(r) THEN Cancelled(@)
                                           ELSE [@ EXCEPT !.pc = "q_fetch",
                                                          !.retries = 0]]
       ELSE exec' = [exec EXCEPT ![r].pc = "q_filter"]
    /\ ExecUnchangedOnRead

\* what the envelope does with the outcome of one page request
\* search_linkedin.go:327, 338: the error of an envelope out of budget
RateLimitedError ==
    "rate limited by upstream job source (429/Too Many Requests). Retried for 3 minutes without recovery. Please try again shortly"

\* the upstream site: it answers every request ("up"), throttles every
\* listings request, or throttles every job-details request
Sites == {"up", "listings_throttled", "details_throttled"}

\* what one listings request can come back with
PageOutcomes ==
    CASE given.site = Unknown -> {"jobs", "none", "fail", "throttled"}
      [] given.site = "listings_throttled" -> {"throttled"}
      [] OTHER -> {"jobs", "none", "fail"}

\* what one job-details request can come back with
DetailsOutcomes ==
    CASE given.site = Unknown -> {"done", "throttled"}
      [] given.site = "details_throttled" -> {"throttled"}
      [] OTHER -> {"done"}

\* an envelope that swallows the end of its budget on a listings request
AfterPageRequestSwallowed(e, outcome, added) ==
    CASE outcome = "jobs" -> [e EXCEPT !.pc = "q_page_event", !.raw = @ + added]
      [] outcome = "none" -> [e EXCEPT !.pc = "q_filter"]
      [] outcome = "fail" -> Failed(e, "linkedin request failed")
      [] outcome = "throttled" ->
             IF e.retries >= MaxRetries
             THEN [e EXCEPT !.pc = "q_filter"]
             ELSE [e EXCEPT !.pc = "q_sleep"]

AfterPageRequest(e, outcome, added) ==
    CASE outcome = "jobs" -> [e EXCEPT !.pc = "q_page_event", !.raw = @ + added]
      [] outcome = "none" -> [e EXCEPT !.pc = "q_filter"]
      [] outcome = "fail" -> Failed(e, "linkedin request failed")
      [] outcome = "throttled" ->
             IF e.retries >= MaxRetries
             THEN Failed(e, RateLimitedError)
             ELSE [e EXCEPT !.pc = "q_sleep"]

\* envelope entry and each retry: probe, then the request
ExecFetchPage(r) ==
    /\ exec[r].pc = "q_fetch"
    /\ runMu = NoHolder
    /\ IF runCancelled(r)
       THEN exec' = [exec EXCEPT ![r] = Cancelled(@)]
       ELSE \E outcome \in PageOutcomes :
            \E added \in 1..(RawScanTarget - exec[r].raw) :
                exec' = [exec EXCEPT ![r] = AfterPageRequest(@, outcome, added)]
    /\ ExecUnchangedOnRead

\* sleepWithCancel: the probe of a slice; an unobserved cancel lets the retry go on
ExecSleep(r) ==
    /\ exec[r].pc \in {"q_sleep", "q_desc_sleep"}
    /\ runMu = NoHolder
    /\ exec' = [exec EXCEPT ![r] =
                   IF runCancelled(r) THEN Cancelled(@)
                   ELSE [@ EXCEPT !.pc = IF @ = "q_sleep" THEN "q_fetch"
                                         ELSE "q_desc_fetch",
                                  !.retries = @ + 1]]
    /\ ExecUnchangedOnRead

(***************************************************************************)
(* The filter loop (search_query.go:126-335).                              *)
(***************************************************************************)
\* an accepted candidate: break when enough, else the idx%25 progress event
AfterAccept(e) ==
    IF e.accepted + 1 >= RequiredAccepted
    THEN [e EXCEPT !.pc = "q_session", !.accepted = @ + 1]
    ELSE IF e.cand % 25 = 0
         THEN [e EXCEPT !.pc = "q_cand_event", !.accepted = @ + 1]
         ELSE [e EXCEPT !.pc = "q_cand", !.accepted = @ + 1, !.cand = @ + 1]

AfterEvaluate(e, accept) ==
    IF accept THEN AfterAccept(e) ELSE [e EXCEPT !.pc = "q_cand", !.cand = @ + 1]

\* loop head: probe, then the candidate up to the detail fetch or the verdict
ExecCandidate(r) ==
    /\ exec[r].pc = "q_cand"
    /\ IF exec[r].cand < exec[r].raw
       THEN /\ runMu = NoHolder
            /\ IF runCancelled(r)
               THEN exec' = [exec EXCEPT ![r] = Cancelled(@)]
               ELSE \E outcome \in {"skip", "accept", "fetch"} :
                    exec' = [exec EXCEPT ![r] =
                        CASE outcome = "skip" -> AfterEvaluate(@, FALSE)
                          [] outcome = "accept" -> AfterEvaluate(@, TRUE)
                          [] outcome = "fetch" ->
                               [@ EXCEPT !.pc = IF exec[r].fetches % 5 = 0
                                                THEN "q_desc_event"
                                                ELSE "q_desc_fetch",
                                         !.retries = 0]]
       ELSE exec' = [exec EXCEPT ![r].pc = "q_session"]
    /\ ExecUnchangedOnRead

\* FetchJobDetails through the envelope; every error but cancelled is swallowed
ExecFetchDetails(r) ==
    /\ exec[r].pc = "q_desc_fetch"
    /\ runMu = NoHolder
    /\ IF runCancelled(r)
       THEN exec' = [exec EXCEPT ![r] = Cancelled(@)]
       ELSE \E outcome \in DetailsOutcomes, accept \in BOOLEAN :
            exec' = [exec EXCEPT ![r] =
                IF outcome = "throttled" /\ @.retries < MaxRetries
                THEN [@ EXCEPT !.pc = "q_desc_sleep"]
                ELSE AfterEvaluate([@ EXCEPT !.fetches = @ + 1], accept)]
    /\ ExecUnchangedOnRead

(***************************************************************************)
(* saveSearchSessionRecord (search_session.go:80-143): the record is built *)
(* first, then withSearchSessionStore(write=true) stores it under a fresh  *)
(* id and enforces the per-user cap.                                       *)
(***************************************************************************)
SessionIdOf(r) == r

NewSession(r, userID, t) ==
    [session_id |-> SessionIdOf(r), user_id |-> userID, created_at_utc |-> t,
     updated_at_utc |-> t,
     expires_at_utc |-> futureISO(t, defaultSearchSessionTTLSeconds)]

ExecSessionLock(r) ==
    /\ exec[r].pc = "q_session"
    /\ sessMu = NoHolder
    /\ sessMu' = ExecActor(r)
    /\ sessMuStore' = pruneSearchSessionsLocked(sessionFile, now)
    /\ exec' = [exec EXCEPT ![r].pc = "q_session_save", ![r].sessAt = now]
    /\ UNCHANGED <<now, runFile, runMu, runMuStore, sessionFile, nextRun, call,
                   ret, spawned, enteredRunning, sessionWrites, envMaxRuns,
                   counters>>

SessionStoreAfterSave(store, r, userID, t) ==
    enforceUserSessionLimitLocked(Put(store, SessionIdOf(r), NewSession(r, userID, t)),
                                  userID)

ExecSessionSave(r, ok) ==
    /\ IoResult(ok)
    /\ exec[r].pc = "q_session_save"
    /\ sessMu = ExecActor(r)
    /\ sessionFile' = IF ok
                      THEN pruneSearchSessionsLocked(
                               SessionStoreAfterSave(sessMuStore, r, exec[r].user,
                                                     exec[r].sessAt),
                               now)
                      ELSE sessionFile
    /\ sessMu' = NoHolder
    /\ sessMuStore' = EmptyDoc
    /\ exec' = [exec EXCEPT ![r] = IF ok THEN [@ EXCEPT !.pc = "q_completed",
                                                        !.sessAt = 0]
                                   ELSE [Failed(@, "session save failed")
                                            EXCEPT !.sessAt = 0]]
    /\ sessionWrites' = IF ok THEN sessionWrites \cup {r} ELSE sessionWrites
    /\ UNCHANGED <<now, runFile, runMu, runMuStore, nextRun, call, ret, spawned,
                   enteredRunning, envMaxRuns>>

\* part_008:92-108
ExecFinishError(r, ok) ==
    /\ exec[r].pc = "e_error"
    /\ ExecUpdate(r, ErrorUpdater(runMuStore[r], now, exec[r].err), ok)
    /\ exec' = [exec EXCEPT ![r] = DoneExec]
    /\ UNCHANGED enteredRunning
    /\ ExecUnchangedOnWrite

\* part_008:109-117
ExecFinishCompleted(r, ok) ==
    /\ exec[r].pc = "e_final"
    /\ ExecUpdate(r, CompletedUpdater(runMuStore[r], now, SessionIdOf(r)), ok)
    /\ exec' = [exec EXCEPT ![r] = DoneExec]
    /\ UNCHANGED enteredRunning
    /\ ExecUnchangedOnWrite

Executor == \E r \in RunIds :
    \/ ExecLock(r)
    \/ \E ok \in BOOLEAN : ExecSetRunning(r, ok)
    \/ ExecLoadRun(r)
    \/ \E ok \in BOOLEAN : ExecLoadFailed(r, ok)
    \/ \E ok, datasetOk \in BOOLEAN : ExecProgress(r, ok, datasetOk)
    \/ ExecPageLoop(r)
    \/ ExecFetchPage(r)
    \/ ExecSleep(r)
    \/ ExecCandidate(r)
    \/ ExecFetchDetails(r)
    \/ ExecSessionLock(r)
    \/ \E ok \in BOOLEAN : ExecSessionSave(r, ok)
    \/ \E ok \in BOOLEAN : ExecFinishError(r, ok)
    \/ \E ok \in BOOLEAN : ExecFinishCompleted(r, ok)

(***************************************************************************)
(* cancel: cancelJobSearch (search_tools.go:386-435), one                  *)
(* withSearchRunStore(write=true).  The terminal branch returns nil, so    *)
(* the loaded document is saved back unchanged.                            *)
(***************************************************************************)
CancelUpdater(run, t) ==
    appendRunEvent([run EXCEPT !.cancel_requested = TRUE, !.status = "cancelling"],
                   t, "cancelling", -1)

CancelLock(u, r) ==
    /\ call[u].op = "idle"
    /\ EnvBudget
    /\ RunStoreLocked(CallActor(u))
    /\ call' = [call EXCEPT ![u] = [IdleCall EXCEPT !.op = "cancel", !.pc = "save",
                                                     !.run = r]]
    /\ counters' = [counters EXCEPT !.cancel = @ + 1]
    /\ UNCHANGED <<now, runFile, sessionFile, sessMu, sessMuStore, nextRun, exec,
                   ret, spawned, enteredRunning, sessionWrites, envMaxRuns>>

\* the payload cancel returns, from the run it found in the loaded document
CancelPayload(run) ==
    IF searchRunIsTerminal(run.status)
    THEN [tool |-> "cancel", ok |-> TRUE, run_id |-> run.run_id,
          status |-> run.status, cancel_requested |-> FALSE]
    ELSE [tool |-> "cancel", ok |-> TRUE, run_id |-> run.run_id,
          status |-> "cancelling", cancel_requested |-> TRUE]

\* a cancel without the terminal test
CancelStoreAlways(store, r, t) == Put(store, r, CancelUpdater(store[r], t))

\* the document cancel hands to the save
CancelStore(store, r, t) ==
    IF searchRunIsTerminal(store[r].status)
    THEN store
    ELSE Put(store, r, CancelUpdater(store[r], t))

CancelSave(u, ok) ==
    /\ call[u].op = "cancel"
    /\ runMu = CallActor(u)
    /\ LET r == call[u].run
           owned == r \in DOMAIN runMuStore /\ runMuStore[r].user_id = u
       IN IF owned
          THEN /\ saveSearchRunsPrunedLocked(CancelStore(runMuStore, r, now), ok)
               /\ ret' = (IF ok THEN CancelPayload(runMuStore[r])
                                            ELSE [tool |-> "cancel", ok |-> FALSE,
                                                  run_id |-> r])
          ELSE /\ ok
               /\ runFile' = runFile
               /\ counters' = counters
               /\ RunStoreRelease
               /\ ret' = ([tool |-> "cancel", ok |-> FALSE,
                                             run_id |-> r])
    /\ call' = [call EXCEPT ![u] = IdleCall]
    /\ UNCHANGED <<now, sessionFile, sessMu, sessMuStore, nextRun, exec, spawned,
                   enteredRunning, sessionWrites, envMaxRuns>>

Cancel == \E u \in Users :
    \/ \E r \in RunIds : CancelLock(u, r)
    \/ \E ok \in BOOLEAN : CancelSave(u, ok)

(***************************************************************************)
(* clear_search_session: ClearSearchSession (part_003:384-468) loads the   *)
(* session document with loadSearchSessions and writes it back with        *)
(* saveSearchSessions, outside withSearchSessionStore.                     *)
(***************************************************************************)
SessionsOf(store, userID) == {s \in DOMAIN store : store[s].user_id = userID}

RunsOf(store, userID) == {r \in DOMAIN store : store[r].user_id = userID}

\* clearAll, or one session id; done = the handler returns without saving
ClearLoad(u, clearAll, sid) ==
    /\ call[u].op = "idle"
    /\ EnvBudget
    /\ counters' = [counters EXCEPT !.clear = @ + 1]
    /\ LET store == sessionFile
           gone == IF clearAll THEN SessionsOf(store, u) ELSE {sid}
           done == ~clearAll /\ sid \notin SessionsOf(store, u)
       IN call' = [call EXCEPT ![u] =
                      IF done THEN IdleCall
                      ELSE [IdleCall EXCEPT !.op = "clear", !.pc = "save",
                                            !.copy = Restrict(store, (DOMAIN store) \ gone),
                                            !.removed = Cardinality(gone)]]
    /\ UNCHANGED <<now, runFile, sessionFile, runMu, runMuStore, sessMu,
                   sessMuStore, nextRun, exec, ret, spawned, enteredRunning,
                   sessionWrites, envMaxRuns>>

ClearSave(u, ok) ==
    /\ IoResult(ok)
    /\ call[u].op = "clear"
    /\ sessionFile' = IF ok THEN call[u].copy ELSE sessionFile
    /\ ret' = ([tool |-> "clear", ok |-> ok,
                                  deleted_count |-> call[u].removed])
    /\ call' = [call EXCEPT ![u] = IdleCall]
    /\ UNCHANGED <<now, runFile, runMu, runMuStore, sessMu, sessMuStore, nextRun,
                   exec, spawned, enteredRunning, sessionWrites, envMaxRuns>>

(***************************************************************************)
(* delete_user_data: DeleteUserData (part_018:660-756) calls               *)
(* removeSearchSessions and then removeSearchRuns; each loads its          *)
(* document, drops the user's records and, when it dropped any, writes the *)
(* document back, outside the store helpers.                               *)
(***************************************************************************)
DeleteBegin(u) ==
    /\ call[u].op = "idle"
    /\ EnvBudget
    /\ counters' = [counters EXCEPT !.delete = @ + 1]
    /\ LET store == sessionFile
           gone == SessionsOf(store, u)
       IN call' = [call EXCEPT ![u] =
                      [IdleCall EXCEPT !.op = "delete",
                                       !.pc = IF gone = {} THEN "runs_load"
                                              ELSE "sessions_save",
                                       !.copy = IF gone = {} THEN EmptyDoc
                                                ELSE Restrict(store, (DOMAIN store) \ gone)]]
    /\ UNCHANGED <<now, runFile, sessionFile, runMu, runMuStore, sessMu,
                   sessMuStore, nextRun, exec, ret, spawned, enteredRunning,
                   sessionWrites, envMaxRuns>>

\* removeSearchSessions, the save; an error ends the handler
removeSearchSessionsSave(u, ok) ==
    /\ IoResult(ok)
    /\ call[u].op = "delete" /\ call[u].pc = "sessions_save"
    /\ sessionFile' = IF ok THEN call[u].copy ELSE sessionFile
    /\ call' = [call EXCEPT ![u] = IF ok THEN [IdleCall EXCEPT !.op = "delete",
                                                              !.pc = "runs_load"]
                                   ELSE IdleCall]
    /\ ret' = IF ok THEN ret
              ELSE [tool |-> "delete", ok |-> FALSE]
    /\ UNCHANGED <<now, runFile, runMu, runMuStore, sessMu, sessMuStore, nextRun,
                   exec, spawned, enteredRunning, sessionWrites, envMaxRuns>>

\* removeSearchRuns, the load; nothing to drop: no save, the handler returns
removeSearchRunsLoad(u) ==
    /\ call[u].op = "delete" /\ call[u].pc = "runs_load"
    /\ LET store == runFile
           gone == RunsOf(store, u)
       IN IF gone = {}
          THEN /\ call' = [call EXCEPT ![u] = IdleCall]
               /\ ret' = ([tool |-> "delete", ok |-> TRUE])
          ELSE /\ call' = [call EXCEPT ![u].pc = "runs_save",
                                       ![u].copy = Restrict(store, (DOMAIN store) \ gone)]
               /\ ret' = ret
    /\ UNCHANGED <<now, runFile, sessionFile, runMu, runMuStore, sessMu,
                   sessMuStore, nextRun, exec, spawned, enteredRunning,
                   sessionWrites, envMaxRuns, counters>>

removeSearchRunsSave(u, ok) ==
    /\ IoResult(ok)
    /\ call[u].op = "delete" /\ call[u].pc = "runs_save"
    /\ runFile' = IF ok THEN call[u].copy ELSE runFile
    /\ call' = [call EXCEPT ![u] = IdleCall]
    /\ ret' = ([tool |-> "delete", ok |-> ok])
    /\ UNCHANGED <<now, sessionFile, runMu, runMuStore, sessMu, sessMuStore,
                   nextRun, exec, spawned, enteredRunning, sessionWrites,
                   envMaxRuns>>

ClearSearchSession == \E u \in Users :
    \/ \E clearAll \in BOOLEAN, sid \in RunIds : ClearLoad(u, clearAll, sid)
    \/ \E ok \in BOOLEAN : ClearSave(u, ok)

DeleteUserData == \E u \in Users :
    \/ DeleteBegin(u)
    \/ \E ok \in BOOLEAN : removeSearchSessionsSave(u, ok)
    \/ removeSearchRunsLoad(u)
    \/ \E ok \in BOOLEAN : removeSearchRunsSave(u, ok)

(***************************************************************************)
(* The invocation gate (package mcp): withRequestLock, requestUserID and   *)
(* userLock.  A user_id is a sequence of characters; a mutex is named by   *)
(* the place that allocated it.                                            *)
(***************************************************************************)
Requests == 1..MaxRequests

Space == " "

UserIdInputs ==
    {<<>>, <<Space>>, <<"a">>, <<Space, "a">>, <<"a", Space>>, <<"b">>}

Inputs ==
    {[has_user_id |-> FALSE, user_id |-> <<>>]}
        \cup {[has_user_id |-> TRUE, user_id |-> s] : s \in UserIdInputs}

RECURSIVE TrimLeft(_)
TrimLeft(s) ==
    IF s = <<>> THEN s
    ELSE IF Head(s) = Space THEN TrimLeft(Tail(s)) ELSE s

RECURSIVE TrimRight(_)
TrimRight(s) ==
    IF s = <<>> THEN s
    ELSE IF s[Len(s)] = Space THEN TrimRight(SubSeq(s, 1, Len(s) - 1)) ELSE s

TrimSpace(s) == TrimRight(TrimLeft(s))

requestUserID(input) ==
    IF ~input.has_user_id THEN <<>> ELSE TrimSpace(input.user_id)

sharedToolMutex == <<"shared">>

FreshMutex(i) == <<"fresh", i>>

Mutexes == {sharedToolMutex} \cup {FreshMutex(i) : i \in Requests}

Unlocked == <<"unlocked">>

Holder(i) == <<"request", i>>

IdleReq == [pc |-> "idle", input |-> [has_user_id |-> FALSE, user_id |-> <<>>],
            tool |-> "", uid |-> <<>>, lock |-> sharedToolMutex, err |-> FALSE]

GateInit ==
    /\ userToolLocks = EmptyDoc
    /\ mutexHolder = [m \in Mutexes |-> Unlocked]
    /\ req = [i \in Requests |-> IdleReq]
    /\ task = [i \in Requests |-> "none"]

NoCall == [op |-> "none"]

NothingGiven == [search_mode |-> Unknown, preferences |-> Unknown, site |-> Unknown]

AuxInit ==
    /\ seen = [polls |-> 0,
               runs |-> [r \in RunIds |-> [next_cursor |-> 0, events |-> EmptyDoc]]]
    /\ pure = NoCall
    /\ given = NothingGiven

Init == StoreInit /\ GateInit /\ AuxInit

\* withRequestLock, up to the choice of the mutex to take
GateEnter(i, input, tool) ==
    /\ req[i].pc = "idle"
    /\ LET uid == requestUserID(input)
       IN req' = [req EXCEPT ![i] =
                     [IdleReq EXCEPT !.pc = IF uid = <<>> THEN "lock" ELSE "load",
                                     !.input = input, !.tool = tool, !.uid = uid]]
    /\ UNCHANGED <<userToolLocks, mutexHolder, task, storeVars, auxVars>>

\* userLock: userToolLocks.Load
GateLoad(i) ==
    /\ req[i].pc = "load"
    /\ req' = [req EXCEPT ![i] =
                  IF req[i].uid \in DOMAIN userToolLocks
                  THEN [@ EXCEPT !.pc = "lock", !.lock = userToolLocks[req[i].uid]]
                  ELSE [@ EXCEPT !.pc = "store"]]
    /\ UNCHANGED <<userToolLocks, mutexHolder, task, storeVars, auxVars>>

\* a userLock that returns the mutex it allocated, whatever the map holds
LoadOrStoreFresh(locks, userID, fresh) == fresh

\* the mutex userLock returns after userToolLocks.LoadOrStore(userID, fresh)
LoadOrStoreActual(locks, userID, fresh) ==
    IF userID \in DOMAIN locks THEN locks[userID] ELSE fresh

\* userLock: fresh := &sync.Mutex{}, then LoadOrStore
GateLoadOrStore(i) ==
    /\ req[i].pc = "store"
    /\ userToolLocks' = IF req[i].uid \in DOMAIN userToolLocks
                        THEN userToolLocks
                        ELSE Put(userToolLocks, req[i].uid, FreshMutex(i))
    /\ req' = [req EXCEPT ![i].pc = "lock",
                          ![i].lock = LoadOrStoreActual(userToolLocks, req[i].uid,
                                                        FreshMutex(i))]
    /\ UNCHANGED <<mutexHolder, task, storeVars, auxVars>>

\* lock.Lock()
GateLock(i) ==
    /\ req[i].pc = "lock"
    /\ mutexHolder[req[i].lock] = Unlocked
    /\ mutexHolder' = [mutexHolder EXCEPT ![req[i].lock] = Holder(i)]
    /\ req' = [req EXCEPT ![i].pc = "handler"]
    /\ UNCHANGED <<userToolLocks, task, storeVars, auxVars>>

\* the start handler: go executeSearchRun(runID)
GateSpawn(i) ==
    /\ req[i].pc = "handler"
    /\ req[i].tool = "start"
    /\ task[i] = "none"
    /\ task' = [task EXCEPT ![i] = "running"]
    /\ UNCHANGED <<userToolLocks, mutexHolder, req, storeVars, auxVars>>

\* fn() returns, with or without an error; the deferred Unlock runs
GateReturn(i, err) ==
    /\ req[i].pc = "handler"
    /\ mutexHolder' = [mutexHolder EXCEPT ![req[i].lock] = Unlocked]
    /\ req' = [req EXCEPT ![i] = [IdleReq EXCEPT !.pc = "returned", !.err = err]]
    /\ UNCHANGED <<userToolLocks, task, storeVars, auxVars>>

\* the background task runs to its end; it takes no mutex of the gate
GateTaskFinish(i) ==
    /\ task[i] = "running"
    /\ task' = [task EXCEPT ![i] = "finished"]
    /\ UNCHANGED <<userToolLocks, mutexHolder, req, storeVars, auxVars>>

GateNext == \E i \in Requests :
    \/ \E input \in Inputs, tool \in {"start", "other"} : GateEnter(i, input, tool)
    \/ GateLoad(i)
    \/ GateLoadOrStore(i)
    \/ GateLock(i)
    \/ GateSpawn(i)
    \/ \E err \in BOOLEAN : GateReturn(i, err)
    \/ GateTaskFinish(i)

GateSpec == Init /\ [][GateNext]_vars

Next ==
    \/ Tick /\ UNCHANGED <<gateVars, auxVars>>
    \/ Start /\ UNCHANGED <<gateVars, auxVars>>
    \/ Executor /\ UNCHANGED <<gateVars, auxVars>>
    \/ Cancel /\ UNCHANGED <<gateVars, auxVars>>
    \/ ClearSearchSession /\ UNCHANGED <<gateVars, auxVars>>
    \/ DeleteUserData /\ UNCHANGED <<gateVars, auxVars>>

Spec == Init /\ [][Next]_vars

(***************************************************************************)
(* Properties of the run store, checked under Spec.                        *)
(***************************************************************************)
IsPrefix(a, b) == Len(a) <= Len(b) /\ SubSeq(b, 1, Len(a)) = a

Kept(r) == r \in DOMAIN runFile /\ r \in DOMAIN runFile'

\* C1: a run never exits a terminal status: once the persisted status of a
\* run is completed, failed or cancelled, no step of any actor changes it to
\* a different value while the record exists.
C1_TerminalStatusIsSink ==
    [][\A r \in RunIds :
          (Kept(r) /\ searchRunIsTerminal(runFile[r].status))
              => runFile'[r].status = runFile[r].status]_vars

StatusEdges ==
    {<<"pending", "running">>, <<"pending", "cancelling">>,
     <<"running", "cancelling">>, <<"running", "completed">>,
     <<"running", "failed">>, <<"cancelling", "cancelled">>}

\* C2: every change of the persisted status of a run is an edge of the
\* lifecycle pending->running, pending->cancelling, running->cancelling,
\* running->completed, running->failed, cancelling->cancelled (here: in runs
\* with no failed write and no delete_user_data call).
C2_StatusChangesAreEdges ==
    [][\A r \in RunIds :
          (Kept(r) /\ runFile'[r].status # runFile[r].status
                   /\ counters'.io = 0 /\ counters'.delete = 0)
              => <<runFile[r].status, runFile'[r].status>> \in StatusEdges]_vars

\* C3: a run whose cancel_requested flag was set by a cancel call ends
\* cancelled: when its background task has finished, its status is cancelled,
\* not completed and not failed (here: in runs with no failed write and no
\* delete_user_data call).
C3_CancelEndsCancelled ==
    \A r \in RunIds :
        (exec[r].pc = "done" /\ r \in DOMAIN runFile
            /\ runFile[r].cancel_requested
            /\ counters.io = 0 /\ counters.delete = 0)
            => runFile[r].status = "cancelled"

\* C4: a cancelled run has no session: its search_session_id and its
\* latest_response are empty and its background task saved no session record.
C4_CancelledHasNoSession ==
    \A r \in DOMAIN runFile :
        runFile[r].status = "cancelled"
            => /\ runFile[r].search_session_id = NoSession
               /\ runFile[r].latest_response = NoSession
               /\ r \notin sessionWrites

C4_Witness ==
    \E r \in DOMAIN runFile :
        /\ runFile[r].status = "cancelled"
        /\ exec[r].pc = "done"
        /\ counters.cancel = 1

\* C5: a run is executed exactly once: one background task is spawned for a
\* run id, by the start call and after the record was saved; the status of
\* the run enters running at most once; a terminal run is not executed again.
C5_ExecutedOnce ==
    [][\A r \in RunIds :
          /\ spawned'[r] <= 1
          /\ (spawned'[r] = 1 /\ spawned[r] = 0)
                => \E u \in Users :
                      /\ call[u].op = "start" /\ call[u].run = r
                      /\ ret'.tool = "start" /\ ret'.ok /\ ret'.run_id = r
                      /\ exec[r].pc = "none"
                      /\ \/ call[u].rec.expires_at_utc <= now
                         \/ (r \in DOMAIN runFile'
                             /\ runFile'[r].status = "pending")
          /\ (Kept(r) /\ runFile[r].status # "running"
                      /\ runFile'[r].status = "running")
                => (runFile[r].status \in {"pending", "cancelling"}
                    /\ enteredRunning[r] = 0)
          /\ (Kept(r) /\ searchRunIsTerminal(runFile[r].status))
                => exec'[r].pc = "done"]_vars

Dense(run) ==
    /\ run.next_event_id = Len(run.events)
    /\ \A i \in 1..Len(run.events) : run.events[i].event_id = i - 1
    /\ Len(run.events) >= 1
    /\ run.events[1].phase = "started"
    /\ run.events[1].progress_percent = 0

\* C6: the event log of every run is dense (events[i].event_id = i from 0,
\* next_event_id = len(events)), starts with the started event of progress 0,
\* and only grows: no step deletes, reorders or modifies an appended event.
C6_EventLogAppendOnly ==
    [][\A r \in DOMAIN runFile' :
          /\ Dense(runFile'[r])
          /\ r \in DOMAIN runFile
                => IsPrefix(runFile[r].events, runFile'[r].events)]_vars

TerminalRecord(run) ==
    /\ searchRunIsTerminal(run.status) => run.completed_at_utc # NoTime
    /\ run.status = "failed" => run.error # ""
    /\ run.status = "cancelled" => run.error = ""
    /\ ~searchRunIsTerminal(run.status) => run.completed_at_utc = NoTime

\* C7: a terminal run has completed_at set and its cancel_requested no longer
\* changes while it is terminal; a failed run has a non-empty error, a
\* cancelled run an empty error, a non-terminal run an empty completed_at.
C7_TerminalRecord ==
    [][\A r \in DOMAIN runFile' :
          /\ TerminalRecord(runFile'[r])
          /\ (r \in DOMAIN runFile /\ searchRunIsTerminal(runFile[r].status)
                 /\ searchRunIsTerminal(runFile'[r].status))
                => runFile'[r].cancel_requested = runFile[r].cancel_requested]_vars

C7_Witness ==
    /\ ret.tool = "cancel" /\ ret.ok /\ ~ret.cancel_requested
    /\ ret.run_id \in DOMAIN runFile
    /\ runFile[ret.run_id].status = "failed"
    /\ runFile[ret.run_id].error # ""
    /\ runFile[ret.run_id].completed_at_utc # NoTime

\* the step in which user u's cancel call of run r saves and returns ok
CancelReturns(u, r) ==
    /\ call[u].op = "cancel" /\ call[u].run = r /\ call'[u].op = "idle"
    /\ ret'.tool = "cancel" /\ ret'.ok
    /\ Kept(r) /\ runMuStore[r] = runFile[r]

\* C8: a cancel call on a terminal run returns that status with
\* cancel_requested=false and changes neither status, cancel_requested nor
\* events; on a non-terminal run it sets cancel_requested, sets the status
\* to cancelling, appends exactly one cancelling event and returns cancelling.
C8_CancelEffect ==
    [][\A u \in Users, r \in RunIds :
          CancelReturns(u, r) =>
             IF searchRunIsTerminal(runFile[r].status)
             THEN /\ ret'.status = runFile[r].status
                  /\ ~ret'.cancel_requested
                  /\ runFile'[r].status = runFile[r].status
                  /\ runFile'[r].cancel_requested = runFile[r].cancel_requested
                  /\ runFile'[r].events = runFile[r].events
             ELSE /\ ret'.status = "cancelling"
                  /\ ret'.cancel_requested
                  /\ runFile'[r].status = "cancelling"
                  /\ runFile'[r].cancel_requested
                  /\ Len(runFile'[r].events) = Len(runFile[r].events) + 1
                  /\ IsPrefix(runFile[r].events, runFile'[r].events)
                  /\ runFile'[r].events[Len(runFile'[r].events)].phase
                        = "cancelling"]_vars

C8_Witness ==
    /\ ret.tool = "cancel" /\ ret.ok /\ ret.status = "cancelling"
    /\ ret.run_id \in DOMAIN runFile
    /\ runFile[ret.run_id].status = "cancelling"
    /\ runFile[ret.run_id].events[Len(runFile[ret.run_id].events)].phase
          = "cancelling"

\* the step in which a clear_search_session or delete_user_data call of
\* user u writes a document
UnguardedSave(u) ==
    /\ call[u].op \in {"clear", "delete"}
    /\ call'[u] # call[u]
    /\ runFile' # runFile \/ sessionFile' # sessionFile

\* C9: no update is lost: a handler that saves the run document or the
\* session document for user u leaves every record of the other users as
\* it was in the document just before the save.
C9_NoLostUpdate ==
    [][\A u \in Users :
          UnguardedSave(u) =>
             /\ \A r \in DOMAIN runFile :
                   runFile[r].user_id # u
                      => (r \in DOMAIN runFile' /\ runFile'[r] = runFile[r])
             /\ \A x \in DOMAIN sessionFile :
                   sessionFile[x].user_id # u
                      => (x \in DOMAIN sessionFile'
                          /\ sessionFile'[x] = sessionFile[x])]_vars

(***************************************************************************)
(* The gate, checked under GateSpec.                                       *)
(***************************************************************************)
\* C10: two handlers called with the same trimmed user_id (or both without
\* one) never run at once; a handler runs holding the mutex of its user_id,
\* the shared mutex when it has none; a mutex is held only by a request whose
\* handler is running, so it is released on return, with or without an
\* error, and no background task holds one.
C10_InvocationGate ==
    /\ \A i, j \in Requests :
          (i # j /\ req[i].pc = "handler" /\ req[j].pc = "handler")
             => requestUserID(req[i].input) # requestUserID(req[j].input)
    /\ \A i \in Requests :
          req[i].pc = "handler"
             => /\ mutexHolder[req[i].lock] = Holder(i)
                /\ requestUserID(req[i].input) = <<>>
                      => req[i].lock = sharedToolMutex
    /\ \A m \in Mutexes :
          mutexHolder[m] # Unlocked
             => \E i \in Requests :
                   /\ mutexHolder[m] = Holder(i)
                   /\ req[i].pc = "handler" /\ req[i].lock = m

C10_Witness ==
    \E i, j, k \in Requests :
        /\ req[i].pc = "handler" /\ req[j].pc = "lock"
        /\ req[i].input.user_id # req[j].input.user_id
        /\ req[i].uid = req[j].uid /\ req[i].uid # <<>>
        /\ req[j].lock = req[i].lock
        /\ req[k].pc = "returned" /\ req[k].err /\ task[k] = "running"

(***************************************************************************)
(* Pagination (search_session.go:169-213).  The accepted jobs are a        *)
(* sequence; a page is a contiguous slice of it.  pure holds one call of a  *)
(* pure function: its arguments and, once applied, its output.             *)
(***************************************************************************)
MaxAccepted == 26
MaxOffset == 27
MaxPageSize == 11

defaultSearchMaxReturned == 10
defaultSearchMaxScanResults == 1200

\* the nil of next_offset
Null == -1

Min2(a, b) == IF a <= b THEN a ELSE b

\* the jobs a scan accepted, in acceptance order: job k has job_url k
Jobs(n) == [k \in 1..n |-> [job_url |-> k]]

\* a variant that reports a next page when the page ends at the last job
HasNextInclusive(end, total) == end <= total

\* search_session.go:194-199
HasNext(end, total) == end < total

sliceAcceptedJobs(accepted, offset, maxReturned, rawScanTarget, maxScanResults, scanExhausted) ==
    LET total == Len(accepted)
        safeOffset == Min2(IF offset < 0 THEN 0 ELSE offset, total)
        pageSize == IF maxReturned < 1 THEN defaultSearchMaxReturned
                    ELSE maxReturned
        end == Min2(safeOffset + pageSize, total)
        page == SubSeq(accepted, safeOffset + 1, end)
    IN [page |-> page,
        pagination |->
          [offset |-> safeOffset,
           page_size |-> pageSize,
           returned_jobs |-> Len(page),
           next_offset |-> IF HasNext(end, total) THEN end ELSE Null,
           has_next_page |-> HasNext(end, total),
           accepted_jobs_total |-> total,
           accepted_jobs_needed_for_page |-> safeOffset + pageSize,
           requested_scan_target |-> rawScanTarget,
           max_scan_results |-> maxScanResults,
           scan_exhausted |-> scanExhausted]]

\* the arguments of a call of sliceAcceptedJobs on n accepted jobs
SliceArgs ==
    [op : {"slice"}, pc : {"args"}, n : 0..MaxAccepted, offset : -1..MaxOffset,
     max_returned : 0..MaxPageSize, scan_exhausted : BOOLEAN, out : {EmptyDoc}]

SliceCall ==
    /\ pure.op = "slice" /\ pure.pc = "args"
    /\ pure' = [pure EXCEPT
                  !.pc = "done",
                  !.out = sliceAcceptedJobs(Jobs(pure.n), pure.offset,
                                            pure.max_returned, pure.n,
                                            defaultSearchMaxScanResults,
                                            pure.scan_exhausted)]
    /\ UNCHANGED <<storeVars, gateVars, seen, given>>

MaxSessionJobs == 11
MaxQueryOffset == 2
MaxQueryReturned == 2

DigitChars == <<"0", "1", "2", "3", "4", "5", "6", "7", "8", "9">>

RECURSIVE Itoa(_)
Itoa(k) == IF k < 10 THEN <<DigitChars[k + 1]>>
           ELSE Itoa(k \div 10) \o <<DigitChars[(k % 10) + 1]>>

FormatResultID(sessionID, k) == sessionID \o <<":">> \o Itoa(k)

\* getString(m, key): "" when the key is absent
getSeq(m, key) == IF key \in DOMAIN m THEN m[key] ELSE <<>>

\* job with job[key] = value (cloneMap, then an assignment)
WithKey(job, key, value) ==
    [x \in DOMAIN job \cup {key} |-> IF x = key THEN value ELSE job[x]]

\* a variant that numbers the results from 0
attachResultIDsZeroBased(sessionID, jobs) ==
    [idx \in 1..Len(jobs) |->
        WithKey(jobs[idx], "result_id", FormatResultID(sessionID, idx - 1))]

\* idx of the source is 0-based: the job at position idx of the sequence
\* is item idx-1 of the Go slice, and gets the number (idx-1)+1
attachResultIDs(sessionID, jobs) ==
    [idx \in 1..Len(jobs) |->
        WithKey(jobs[idx], "result_id",
                IF getSeq(jobs[idx], "result_id") = <<>>
                THEN FormatResultID(sessionID, (idx - 1) + 1)
                ELSE jobs[idx].result_id)]

\* later entries overwrite earlier ones with the same result_id
buildResultIndex(jobs) ==
    LET keys == {getSeq(jobs[i], "result_id") : i \in 1..Len(jobs)} \ {<<>>}
        last(rid) == CHOOSE i \in 1..Len(jobs) :
                        /\ getSeq(jobs[i], "result_id") = rid
                        /\ \A j \in 1..Len(jobs) :
                              getSeq(jobs[j], "result_id") = rid => j <= i
    IN [rid \in keys |-> [result_id |-> rid, job_url |-> jobs[last(rid)].job_url]]

\* the frozen query of a run, as far as pagination reads it
Queries ==
    [user_id : Users, offset : 0..MaxQueryOffset, max_returned : 1..MaxQueryReturned,
     max_scan_results : {defaultSearchMaxScanResults}]

\* newRunID: 12 random bytes in hexadecimal
SessionIds == {<<"a", "1">>, <<"a", "1", "1">>}

\* saveSearchSessionRecord: the record it builds and stores
SessionRecord(sessionID, query, acceptedJobs, scanExhausted, rawScanTarget) ==
    LET accepted == attachResultIDs(sessionID, acceptedJobs)
    IN [session_id |-> sessionID,
        user_id |-> query.user_id,
        query |-> query,
        accepted_jobs |-> accepted,
        result_id_index |-> buildResultIndex(accepted),
        accepted_jobs_total |-> Len(accepted),
        latest_scan_target |-> rawScanTarget,
        scan_exhausted |-> scanExhausted]

\* executeSearchQuery from the saved session to the response it returns
\* (search_query.go:337-481); guidance and dataset_freshness do not depend on
\* the page and are left out
BuildResponse(session, query, scanExhausted, rawScanTarget) ==
    LET acceptedWithIDs == session.accepted_jobs
        sl == sliceAcceptedJobs(acceptedWithIDs, query.offset, query.max_returned,
                                rawScanTarget, query.max_scan_results, scanExhausted)
    IN [status |-> [outcome |-> IF Len(sl.page) > 0 THEN "completed"
                                ELSE "completed_no_results",
                    search_session |->
                        [session_id |-> session.session_id,
                         accepted_jobs_total |-> Len(acceptedWithIDs)]],
        stats |-> [accepted_jobs |-> Len(acceptedWithIDs),
                   returned_jobs |-> Len(sl.page)],
        pagination |-> sl.pagination,
        recovery_suggestions |-> IF Len(sl.page) = 0 THEN <<"related_titles">>
                                 ELSE <<>>,
        jobs |-> sl.page]

\* the arguments of the executor's call of saveSearchSessionRecord after a
\* scan that accepted n jobs
SessionArgs ==
    [op : {"session"}, pc : {"args"}, session_id : SessionIds,
     n : 0..MaxSessionJobs, query : Queries, scan_exhausted : BOOLEAN,
     out : {EmptyDoc}]

SessionCall ==
    /\ pure.op = "session" /\ pure.pc = "args"
    /\ LET session == SessionRecord(pure.session_id, pure.query, Jobs(pure.n),
                                    pure.scan_exhausted, pure.n)
       IN pure' = [pure EXCEPT
                     !.pc = "done",
                     !.out = [session |-> session,
                              response |-> BuildResponse(session, pure.query,
                                                         pure.scan_exhausted,
                                                         pure.n)]]
    /\ UNCHANGED <<storeVars, gateVars, seen, given>>

(***************************************************************************)
(* C16: in a session the executor writes with n accepted jobs, the i-th    *)
(* job has result_id "<session_id>:<i>", the n result ids are distinct,    *)
(* result_id_index has exactly these keys and the key of job i resolves to *)
(* the job_url of job i; the jobs of the response carry the same ids.      *)
(***************************************************************************)
C16_ResultIds ==
    (pure.op = "session" /\ pure.pc = "done") =>
        LET s == pure.out.session
            acc == s.accepted_jobs
            n == pure.n
            resp == pure.out.response
            off == resp.pagination.offset
        IN /\ Len(acc) = n
           /\ \A i \in 1..n :
                /\ acc[i].result_id = pure.session_id \o <<":">> \o Itoa(i)
                /\ acc[i].job_url = Jobs(n)[i].job_url
                /\ s.result_id_index[acc[i].result_id].job_url = acc[i].job_url
           /\ \A i, j \in 1..n : acc[i].result_id = acc[j].result_id => i = j
           /\ DOMAIN s.result_id_index = {acc[i].result_id : i \in 1..n}
           /\ Cardinality(DOMAIN s.result_id_index) = n
           /\ \A k \in 1..Len(resp.jobs) : resp.jobs[k] = acc[off + k]

\* 11 accepted jobs: the last id has two digits, and the page of the response
\* starts after the first job
C16_Witness ==
    /\ pure.op = "session" /\ pure.pc = "done"
    /\ pure.n = 11 /\ pure.session_id = <<"a", "1">>
    /\ pure.out.session.accepted_jobs[11].result_id = <<"a", "1", ":", "1", "1">>
    /\ pure.query.offset = 1
    /\ Len(pure.out.response.jobs) = 2
    /\ pure.out.response.jobs[1].result_id = <<"a", "1", ":", "2">>

(***************************************************************************)
(* get_job_search_results on the data of a run and of its session          *)
(* (search_tools.go:283-376).  An optional argument is a sequence of       *)
(* length 0 (omitted) or 1.  The run and the session are the ones the      *)
(* executor wrote for a scan that accepted n jobs.                         *)
(***************************************************************************)
MaxResultJobs == 3
MaxArgOffset == 4
MaxArgReturned == 3

NoError == ""

\* a variant without the owner test
loadRunForAnyUser(runs, runID, userID) ==
    IF runID \notin DOMAIN runs THEN [err |-> "unknown run_id"]
    ELSE [err |-> NoError, record |-> runs[runID]]

\* loadRunForUser on the loaded run document (memory.go:458-480)
loadRunForUser(runs, runID, userID) ==
    IF runID \notin DOMAIN runs THEN [err |-> "unknown run_id"]
    ELSE IF runs[runID].user_id # userID
         THEN [err |-> "run_id does not belong to this user_id"]
         ELSE [err |-> NoError, record |-> runs[runID]]

\* loadSearchSessionForUser on the loaded session document
loadSearchSessionForUser(sessions, sessionID, userID) ==
    IF sessionID \notin DOMAIN sessions THEN [err |-> "unknown session_id"]
    ELSE IF sessions[sessionID].user_id # userID
         THEN [err |-> "session_id does not belong to this user_id"]
         ELSE [err |-> NoError, record |-> sessions[sessionID]]

\* a variant that keeps the jobs of the stored response
rebuildResponsePageKeepJobs(base, page, pagination) ==
    [base EXCEPT !.pagination = pagination, !.stats.returned_jobs = Len(page)]

rebuildResponsePage(base, page, pagination) ==
    [base EXCEPT !.jobs = page, !.pagination = pagination,
                 !.stats.returned_jobs = Len(page)]

ResultsPayload(run, response) ==
    [err |-> NoError,
     run |-> [run_id |-> run.run_id, status |-> run.status],
     status |-> response.status,
     stats |-> response.stats,
     pagination |-> response.pagination,
     recovery_suggestions |-> response.recovery_suggestions,
     jobs |-> response.jobs]

getJobSearchResults(runs, sessions, userID, runID, argOffset, argMax) ==
    LET loaded == loadRunForUser(runs, runID, userID)
        run == loaded.record
        query == run.query
        latestResponse == run.latest_response
        defaultOffset == query.offset
        defaultMax == IF query.max_returned < 1 THEN defaultSearchMaxReturned
                      ELSE query.max_returned
        requestedOffset == IF argOffset = <<>> THEN defaultOffset ELSE argOffset[1]
        requestedMax == IF argMax = <<>> THEN defaultMax ELSE argMax[1]
        sessionID == run.search_session_id
        sess == loadSearchSessionForUser(sessions, sessionID, userID)
        session == sess.record
        sl == sliceAcceptedJobs(session.accepted_jobs, requestedOffset, requestedMax,
                                session.latest_scan_target,
                                Max2(defaultSearchMaxScanResults,
                                     query.max_scan_results),
                                session.scan_exhausted)
    IN IF loaded.err # NoError THEN [err |-> loaded.err]
       ELSE IF latestResponse = EmptyDoc
            THEN [err |-> "no result snapshot yet; poll status"]
       ELSE IF argOffset # <<>> /\ argOffset[1] < 0
            THEN [err |-> "offset must be >= 0"]
       ELSE IF argMax # <<>> /\ argMax[1] < 1
            THEN [err |-> "max_returned must be >= 1"]
       ELSE IF requestedOffset = defaultOffset /\ requestedMax = defaultMax
            THEN ResultsPayload(run, latestResponse)
       ELSE IF sessionID = <<>>
            THEN [err |-> "search_session_id is unavailable for this run"]
       ELSE IF sess.err # NoError THEN [err |-> sess.err]
       ELSE ResultsPayload(run, rebuildResponsePage(latestResponse, sl.page,
                                                    sl.pagination))

\* the run of owner query.user_id after executeSearchRun completed it with
\* the session and the response of a scan that accepted n jobs, or still
\* running (no response, no session)
RunRecord(runID, query, session, completed) ==
    [run_id |-> runID, user_id |-> query.user_id, query |-> query,
     status |-> IF completed THEN "completed" ELSE "running",
     search_session_id |-> IF completed THEN session.session_id ELSE <<>>,
     latest_response |-> IF completed
                         THEN BuildResponse(session, query, session.scan_exhausted,
                                            session.latest_scan_target)
                         ELSE EmptyDoc]

OptionalInts(lo, hi) == {<<>>} \cup {<<k>> : k \in lo..hi}

\* the arguments of a results call and the state it finds: the run completed
\* or not, its session still stored or removed since (expired, cleared)
ResultsArgs ==
    [op : {"results"}, pc : {"args"}, n : 0..MaxResultJobs, query : Queries,
     completed : BOOLEAN, session_stored : BOOLEAN, user_id : Users,
     offset : OptionalInts(-1, MaxArgOffset),
     max_returned : OptionalInts(0, MaxArgReturned),
     out : {EmptyDoc}]

ResultsSessionId == <<"a", "1">>

ResultsSession(a) ==
    SessionRecord(ResultsSessionId, a.query, Jobs(a.n), TRUE, a.n)

ResultsRuns(a) ==
    [r \in {1} |-> RunRecord(1, a.query, ResultsSession(a), a.completed)]

ResultsSessions(a) ==
    IF a.completed /\ a.session_stored
    THEN [s \in {ResultsSessionId} |-> ResultsSession(a)]
    ELSE EmptyDoc

ResultsCall ==
    /\ pure.op = "results" /\ pure.pc = "args"
    /\ pure' = [pure EXCEPT
                  !.pc = "done",
                  !.out = getJobSearchResults(ResultsRuns(pure),
                                              ResultsSessions(pure), pure.user_id,
                                              1, pure.offset, pure.max_returned)]
    /\ UNCHANGED <<storeVars, gateVars, seen, given>>

MaxPolls == 2
MaxPolledRuns == 1

\* a cursor beyond the end of every event log
BigCursor == 100
Cursors == {0, 1, BigCursor}
PolledRunIds == 1..MaxPolledRuns

\* a variant of the read helpers that saves the pruned document
SavedAfterReadPruned(file, pruned) == pruned

\* withSearchRunStore / withSearchSessionStore with write=false: the file
\* after the call, given the pruned copy the call worked on
SavedAfterRead(file, pruned) == file

\* a variant that returns the cursor as given
SafeCursorUnclamped(cursor, n) == cursor

SafeCursor(cursor, n) == IF cursor > n THEN n ELSE cursor

\* a variant that takes every run to have a snapshot
HasSnapshotAlways(run) == TRUE

\* len(latestResponse) > 0
HasSnapshot(run) == run.latest_response # NoSession

CallError(tool, userID, runID, err) ==
    [tool |-> tool, user |-> userID, run_id |-> runID, ok |-> FALSE, err |-> err]

\* the payload of a status call on the loaded (pruned) run document
getJobSearchStatus(store, userID, runID, cursor) ==
    LET loaded == loadRunForUser(store, runID, userID)
        run == loaded.record
        events == run.events
        safeCursor == SafeCursor(cursor, Len(events))
    IN IF cursor < 0
       THEN CallError("status", userID, runID, "cursor must be >= 0")
       ELSE IF loaded.err # NoError
       THEN CallError("status", userID, runID, loaded.err)
       ELSE [tool |-> "status", user |-> userID, run_id |-> runID, ok |-> TRUE,
             err |-> NoError, asked |-> cursor,
             status |-> run.status,
             is_terminal |-> searchRunIsTerminal(run.status),
             cancel_requested |-> run.cancel_requested,
             completed_at_utc |-> run.completed_at_utc,
             search_session_id |-> run.search_session_id,
             error |-> run.error,
             events |-> SubSeq(events, safeCursor + 1, Len(events)),
             cursor |-> safeCursor,
             next_cursor |-> Len(events),
             can_fetch_results |-> HasSnapshot(run)]

\* what the polls of a run have reported so far: the last next_cursor and,
\* by event_id, the events
Reported(old, payload) ==
    [next_cursor |-> payload.next_cursor,
     events |-> [id \in DOMAIN old.events
                         \cup {payload.events[k].event_id : k \in DOMAIN payload.events}
                    |-> IF \E k \in DOMAIN payload.events : payload.events[k].event_id = id
                        THEN (CHOOSE e \in {payload.events[k] : k \in DOMAIN payload.events} :
                                  e.event_id = id)
                        ELSE old.events[id]]]

Status(u, r, cursor) ==
    /\ call[u].op = "idle"
    /\ runMu = NoHolder
    /\ seen.polls < MaxPolls
    /\ LET payload == getJobSearchStatus(RunStoreRead, u, r, cursor)
       IN /\ ret' = payload
          /\ seen' = [seen EXCEPT
                        !.polls = @ + 1,
                        !.runs[r] = IF payload.ok THEN Reported(@, payload) ELSE @]
    /\ runFile' = SavedAfterRead(runFile, RunStoreRead)
    /\ UNCHANGED <<now, sessionFile, runMu, runMuStore, sessMu, sessMuStore, nextRun,
                   exec, call, spawned, enteredRunning, sessionWrites, envMaxRuns,
                   counters, gateVars, pure, given>>

GetJobSearchStatus ==
    \E u \in Users, r \in PolledRunIds, cursor \in Cursors : Status(u, r, cursor)

ResultsOk(u, run, source) ==
    [tool |-> "results", user |-> u, run_id |-> run.run_id, ok |-> TRUE,
     err |-> NoError, status |-> run.status, source |-> source,
     response |-> run.latest_response]

\* loadRunForUser and the tests up to the choice between the stored response
\* and a re-slice; reslice: the requested (offset, max_returned) differs from
\* the query's
ResultsLoadRun(u, r, reslice) ==
    /\ call[u].op = "idle"
    /\ runMu = NoHolder
    /\ seen.polls < MaxPolls
    /\ seen' = [seen EXCEPT !.polls = @ + 1]
    /\ LET loaded == loadRunForUser(RunStoreRead, r, u)
           run == loaded.record
           err == IF loaded.err # NoError THEN loaded.err
                  ELSE IF ~HasSnapshot(run)
                       THEN "no result snapshot yet; poll status"
                  ELSE IF reslice /\ run.search_session_id = NoSession
                       THEN "search_session_id is unavailable for this run"
                  ELSE NoError
       IN IF err # NoError
          THEN /\ ret' = CallError("results", u, r, err)
               /\ call' = call
          ELSE IF ~reslice
          THEN /\ ret' = ResultsOk(u, run, "stored")
               /\ call' = call
          ELSE /\ ret' = ret
               /\ call' = [call EXCEPT ![u] = [IdleCall EXCEPT !.op = "results",
                                                                !.pc = "session",
                                                                !.run = r,
                                                                !.rec = run]]
    /\ runFile' = SavedAfterRead(runFile, RunStoreRead)
    /\ UNCHANGED <<now, sessionFile, runMu, runMuStore, sessMu, sessMuStore, nextRun,
                   exec, spawned, enteredRunning, sessionWrites, envMaxRuns,
                   counters, gateVars, pure, given>>

\* loadSearchSessionForUser, sliceAcceptedJobs and rebuildResponsePage
ResultsLoadSession(u) ==
    /\ call[u].op = "results"
    /\ sessMu = NoHolder
    /\ LET store == pruneSearchSessionsLocked(sessionFile, now)
           run == call[u].rec
           sess == loadSearchSessionForUser(store, run.search_session_id, u)
       IN /\ ret' = IF sess.err # NoError
                    THEN CallError("results", u, run.run_id, sess.err)
                    ELSE ResultsOk(u, run, "session")
          /\ sessionFile' = SavedAfterRead(sessionFile, store)
    /\ call' = [call EXCEPT ![u] = IdleCall]
    /\ UNCHANGED <<now, runFile, runMu, runMuStore, sessMu, sessMuStore, nextRun,
                   exec, spawned, enteredRunning, sessionWrites, envMaxRuns,
                   counters, gateVars, seen, pure, given>>

GetJobSearchResults ==
    \/ \E u \in Users, r \in PolledRunIds, reslice \in BOOLEAN :
          ResultsLoadRun(u, r, reslice)
    \/ \E u \in Users : ResultsLoadSession(u)

(***************************************************************************)
(* The specification of the polling clients: starts, executors, cancels    *)
(* and the clock, with status and results calls in between.                *)
(***************************************************************************)
\* start, for the first MaxPolledRuns runs
ReadStart ==
    /\ nextRun <= MaxPolledRuns \/ \E u \in Users : call[u].op = "start"
    /\ Start

ReadNext ==
    \/ Tick /\ UNCHANGED <<gateVars, auxVars>>
    \/ ReadStart /\ UNCHANGED <<gateVars, auxVars>>
    \/ Executor /\ UNCHANGED <<gateVars, auxVars>>
    \/ Cancel /\ UNCHANGED <<gateVars, auxVars>>
    \/ GetJobSearchStatus
    \/ GetJobSearchResults

ReadSpec == Init /\ [][ReadNext]_vars

(***************************************************************************)
(* C11: a status call that succeeds returns the events at positions >=     *)
(* min(cursor, len(events)) of the run's log, that position as cursor, and *)
(* next_cursor = len(events); a further poll with no other activity would return the     *)
(* same payload; next_cursor is never below the one an earlier poll of the *)
(* run returned, and an event returned under an event_id is the one        *)
(* earlier polls returned under it.  Checked with starts, executors,       *)
(* cancels and the clock running between the polls.                        *)
(***************************************************************************)
StatusReturns(u, r) ==
    /\ seen'.polls = seen.polls + 1 /\ call' = call
    /\ ret'.tool = "status" /\ ret'.user = u /\ ret'.run_id = r /\ ret'.ok

C11_StatusCursor ==
    [][\A u \in Users, r \in PolledRunIds, c \in Cursors :
         (StatusReturns(u, r) /\ ret'.asked = c) =>
            LET store == pruneSearchRunsLocked(runFile, now)
                events == store[r].events
                before == seen.runs[r]
            IN /\ r \in DOMAIN store
               /\ ret'.cursor = Min2(c, Len(events))
               /\ ret'.events = SubSeq(events, Min2(c, Len(events)) + 1, Len(events))
               /\ ret'.next_cursor = Len(events)
               /\ getJobSearchStatus(RunStoreRead, u, r, c)' = ret'
               /\ ret'.next_cursor >= before.next_cursor
               /\ \A k \in DOMAIN ret'.events :
                     ret'.events[k].event_id \in DOMAIN before.events
                        => before.events[ret'.events[k].event_id] = ret'.events[k]]_vars

\* a second poll, with cursor 1, of a run whose first event (event_id 0) an
\* earlier poll reported and which a cancel reached in between or before
C11_Witness ==
    /\ seen.polls = 2
    /\ ret.tool = "status" /\ ret.ok /\ ret.asked = 1 /\ ret.cursor = 1
    /\ Len(ret.events) >= 2
    /\ ret.events[1].event_id = 1
    /\ 0 \in DOMAIN seen.runs[ret.run_id].events
    /\ ret.cancel_requested

(***************************************************************************)
(* C12: a step of a status or results call leaves the persisted run        *)
(* document and the persisted session document as they were.               *)
(***************************************************************************)
PollStep ==
    \/ seen'.polls # seen.polls
    \/ \E u \in Users : call[u].op = "results" /\ call'[u].op = "idle"

C12_ReadOnly ==
    [][PollStep => (runFile' = runFile /\ sessionFile' = sessionFile)]_vars

\* a status call found the run expired (pruned from the copy it loaded, hence
\* unknown) and the run is still in the file
C12_Witness ==
    /\ ret.tool = "status" /\ ~ret.ok /\ ret.err = "unknown run_id"
    /\ ret.run_id \in DOMAIN runFile
    /\ runFile[ret.run_id].expires_at_utc <= now
    /\ runFile[ret.run_id].user_id = ret.user

(***************************************************************************)
(* C13: a stored run has a latest_response exactly when its status is      *)
(* completed; a results call by the owner of a run without latest_response *)
(* fails with the 'no result snapshot yet' error; hence a results call     *)
(* that succeeds is one on a completed run.                                *)
(***************************************************************************)
SnapshotIffCompleted ==
    \A r \in DOMAIN runFile :
        (runFile[r].latest_response # NoSession) <=> (runFile[r].status = "completed")

\* the first step of a results call of user u on run r
ResultsCalled(u, r) ==
    /\ seen'.polls = seen.polls + 1
    /\ \/ call' = call /\ ret'.tool = "results" /\ ret'.user = u /\ ret'.run_id = r
       \/ call[u].op = "idle" /\ call'[u].op = "results" /\ call'[u].run = r

C13_NoSnapshotNoResults ==
    /\ []SnapshotIffCompleted
    /\ [](ret.tool = "results" /\ ret.ok => ret.status = "completed")
    /\ [][\A u \in Users, r \in PolledRunIds :
            (/\ ResultsCalled(u, r)
             /\ r \in DOMAIN RunStoreRead
             /\ RunStoreRead[r].user_id = u
             /\ RunStoreRead[r].latest_response = NoSession)
            => (/\ call' = call
                /\ ~ret'.ok
                /\ ret'.err = "no result snapshot yet; poll status")]_vars

\* the owner asked for the results of a run that had failed
C13_Witness ==
    /\ ret.tool = "results" /\ ~ret.ok
    /\ ret.err = "no result snapshot yet; poll status"
    /\ ret.run_id \in DOMAIN runFile
    /\ runFile[ret.run_id].status = "failed"
    /\ exec[ret.run_id].pc = "done"
    /\ seen.polls = 1

(***************************************************************************)
(* C18: status, results and cancel called by a user who does not own the   *)
(* run return an error that carries nothing of the run and leave the run   *)
(* document unchanged; a results call that re-slices a session reads a     *)
(* session of the caller.                                                  *)
(***************************************************************************)
\* the fields of an error payload: nothing of the run but the id asked for
ErrorFields == {"tool", "user", "run_id", "ok", "err"}

\* user u is not the owner of run r in the document a handler would load
NotOwner(u, r) == r \in DOMAIN RunStoreRead /\ RunStoreRead[r].user_id # u

\* the session document results would load
SessionStoreRead == pruneSearchSessionsLocked(sessionFile, now)

C18_OwnershipIsolation ==
    [][\A u \in Users, r \in PolledRunIds :
         /\ (/\ NotOwner(u, r)
             /\ seen'.polls = seen.polls + 1
             /\ \/ call' = call /\ ret'.tool \in {"status", "results"}
                               /\ ret'.user = u /\ ret'.run_id = r
                \/ call'[u] # call[u])
            => (/\ call' = call
                /\ ~ret'.ok
                /\ ret'.err = "run_id does not belong to this user_id"
                /\ DOMAIN ret' \subseteq ErrorFields
                /\ runFile' = runFile)
         /\ (/\ call[u].op = "cancel" /\ call[u].run = r /\ call'[u].op = "idle"
             /\ r \in DOMAIN runMuStore /\ runMuStore[r].user_id # u)
            => (/\ ~ret'.ok
                /\ DOMAIN ret' \subseteq ErrorFields
                /\ runFile' = runFile)
         /\ (/\ call[u].op = "results" /\ call'[u].op = "idle" /\ ret'.ok)
            => (/\ call[u].rec.user_id = u
                /\ call[u].rec.search_session_id \in DOMAIN SessionStoreRead
                /\ SessionStoreRead[call[u].rec.search_session_id].user_id = u)]_vars

\* the other user asked for the results of a completed run
C18_Witness ==
    /\ ret.tool = "results" /\ ~ret.ok
    /\ ret.err = "run_id does not belong to this user_id"
    /\ ret.run_id \in DOMAIN runFile
    /\ runFile[ret.run_id].status = "completed"
    /\ runFile[ret.run_id].user_id # ret.user
    /\ ~runFile[ret.run_id].cancel_requested

(***************************************************************************)
(* Input validation of start (search_tools.go:35-134).  An argument is a   *)
(* JSON value: absent, a number (json numbers arrive as float64; halves    *)
(* are enough to tell 2 from 2.5), an int, a string or a bool.  v is the   *)
(* int, the number of halves of the float, the index of the string in      *)
(* TextTable, or 0/1 for a bool.                                           *)
(***************************************************************************)
TextTable ==
    << <<>>,
       <<" ">>,
       <<"x">>,
       <<" ", "2", " ">>,
       <<"-", "1">>,
       <<"l", "i", "n", "k", "e", "d", "i", "n">>,
       <<" ", "L", "i", "n", "k", "e", "d", "I", "n">>,
       <<"i", "n", "d", "e", "e", "d">>,
       <<"s", "t", "r", "i", "c", "t">>,
       <<"B", "a", "l", "a", "n", "c", "e", "d">>,
       <<"l", "o", "o", "s", "e">>,
       <<"t", "r", "u", "e">>,
       <<"u", "1">> >>

Absent == [t |-> "absent", v |-> 0]
IntV(k) == [t |-> "int", v |-> k]
FloatV(halves) == [t |-> "float", v |-> halves]
TextV(i) == [t |-> "text", v |-> i]
BoolV(b) == [t |-> "bool", v |-> IF b THEN 1 ELSE 0]

UpperChars == <<"L", "I", "B", "R", "A", "T", "E", "M", "O", "N", "Y", "Q", "U", "S", "G", "D", "C">>
LowerChars == <<"l", "i", "b", "r", "a", "t", "e", "m", "o", "n", "y", "q", "u", "s", "g", "d", "c">>

ToLowerChar(c) ==
    IF \E k \in 1..Len(UpperChars) : UpperChars[k] = c
    THEN LowerChars[CHOOSE k \in 1..Len(UpperChars) : UpperChars[k] = c]
    ELSE c

ToLower(s) == [k \in 1..Len(s) |-> ToLowerChar(s[k])]

\* int(float64): truncation towards zero
TruncHalves(h) == IF h >= 0 THEN h \div 2 ELSE -((-h) \div 2)

\* preferences.go:140-141: case float64: return int(typed), true, nil
FloatToInt(h) == [err |-> FALSE, val |-> TruncHalves(h)]

SprintInt(k) == IF k < 0 THEN <<"-">> \o Itoa(-k) ELSE Itoa(k)

IsDigit(c) == \E k \in 1..Len(DigitChars) : DigitChars[k] = c

DigitValue(c) == (CHOOSE k \in 1..Len(DigitChars) : DigitChars[k] = c) - 1

RECURSIVE DigitsValue(_)
DigitsValue(s) ==
    IF s = <<>> THEN 0
    ELSE 10 * DigitsValue(SubSeq(s, 1, Len(s) - 1)) + DigitValue(s[Len(s)])

\* strconv.Atoi: an optional sign and at least one digit, nothing else
Atoi(s) ==
    LET signed == s # <<>> /\ Head(s) \in {"-", "+"}
        digits == IF signed THEN Tail(s) ELSE s
        ok == digits # <<>> /\ \A k \in 1..Len(digits) : IsDigit(digits[k])
    IN [err |-> ~ok,
        val |-> IF ~ok THEN 0
                ELSE IF signed /\ Head(s) = "-" THEN -DigitsValue(digits)
                ELSE DigitsValue(digits)]

\* strconv.ParseBool on the strings of TextTable
ParseBool(s) ==
    [err |-> s \notin {<<"t", "r", "u", "e">>},
     val |-> s = <<"t", "r", "u", "e">>]

\* preferences.go:81-92; fmt.Sprint of a float or a bool is not needed: the
\* string arguments are drawn from absent, strings and ints
getString(args, key) ==
    LET x == args[key]
    IN IF x.t = "absent" THEN <<>>
       ELSE IF x.t = "text" THEN TrimSpace(TextTable[x.v])
       ELSE SprintInt(x.v)

\* preferences.go:134-153
getOptionalInt(args, key) ==
    LET x == args[key]
    IN IF x.t = "absent" THEN [has |-> FALSE, err |-> FALSE, val |-> 0]
       ELSE IF x.t = "float"
            THEN [has |-> TRUE, err |-> FloatToInt(x.v).err, val |-> FloatToInt(x.v).val]
       ELSE IF x.t = "int" THEN [has |-> TRUE, err |-> FALSE, val |-> x.v]
       ELSE IF x.t = "text"
            THEN [has |-> TRUE, err |-> Atoi(TrimSpace(TextTable[x.v])).err,
                  val |-> Atoi(TrimSpace(TextTable[x.v])).val]
       ELSE [has |-> TRUE, err |-> TRUE, val |-> 0]

\* preferences.go:155-172
getOptionalBool(args, key) ==
    LET x == args[key]
    IN IF x.t = "absent" THEN [has |-> FALSE, err |-> FALSE, val |-> FALSE]
       ELSE IF x.t = "bool" THEN [has |-> TRUE, err |-> FALSE, val |-> x.v = 1]
       ELSE IF x.t = "text"
            THEN [has |-> TRUE, err |-> ParseBool(TrimSpace(TextTable[x.v])).err,
                  val |-> ParseBool(TrimSpace(TextTable[x.v])).val]
       ELSE [has |-> TRUE, err |-> TRUE, val |-> FALSE]

Linkedin == <<"l", "i", "n", "k", "e", "d", "i", "n">>

\* search_sites.go:8-17
normalizeSearchSite(site) ==
    LET clean == IF ToLower(TrimSpace(site)) = <<>> THEN Linkedin
                 ELSE ToLower(TrimSpace(site))
    IN [err |-> clean # Linkedin, site |-> clean]

\* search_models.go:145-154
strictnessOrDefault(value) ==
    IF ToLower(TrimSpace(value)) = <<>> THEN <<"s", "t", "r", "i", "c", "t">>
    ELSE ToLower(TrimSpace(value))

defaultSearchResultsWanted == 300
defaultSearchHoursOld == 336
defaultSearchScanMultiplier == 8

\* an optional int argument with a lower bound: the error, if any, and the
\* value the handler goes on with
IntArg(args, key, lowest, default) ==
    LET p == getOptionalInt(args, key)
    IN IF ~p.has THEN [err |-> NoError, val |-> default]
       ELSE IF p.err THEN [err |-> "must be an integer when provided", val |-> default]
       ELSE IF p.val < lowest THEN [err |-> "below the minimum", val |-> default]
       ELSE [err |-> NoError, val |-> p.val]

BoolArg(args, key) ==
    LET p == getOptionalBool(args, key)
    IN IF p.has /\ p.err THEN [err |-> "must be a boolean when provided", val |-> FALSE]
       ELSE [err |-> NoError, val |-> p.has /\ p.val]

\* the first error of a sequence of checks
RECURSIVE FirstError(_)
FirstError(errs) ==
    IF errs = <<>> THEN NoError
    ELSE IF Head(errs) # NoError THEN Head(errs) ELSE FirstError(Tail(errs))

\* startJobSearchWithMode up to the run record: the error it returns, or
\* the query it freezes.  hours_old and max_scan_results are clamped, not
\* rejected.
startJobSearchQuery(args) ==
    LET location == getString(args, "location")
        jobTitle == getString(args, "job_title")
        userID == getString(args, "user_id")
        site == normalizeSearchSite(getString(args, "site"))
        strictness == strictnessOrDefault(getString(args, "strictness_mode"))
        resultsWanted == IntArg(args, "results_wanted", 1, defaultSearchResultsWanted)
        maxReturned == IntArg(args, "max_returned", 1, defaultSearchMaxReturned)
        offset == IntArg(args, "offset", 0, 0)
        hoursOld == getOptionalInt(args, "hours_old")
        requireSignal == BoolArg(args, "require_description_signal")
        refreshSession == BoolArg(args, "refresh_session")
        scanMultiplier == IntArg(args, "scan_multiplier", 1, defaultSearchScanMultiplier)
        maxScan == getOptionalInt(args, "max_scan_results")
        err == FirstError(<<
            IF location = <<>> THEN "location is required" ELSE NoError,
            IF jobTitle = <<>> THEN "job_title is required" ELSE NoError,
            IF userID = <<>> THEN "user_id is required" ELSE NoError,
            IF site.err THEN "only linkedin is supported right now" ELSE NoError,
            IF strictness \notin {<<"s", "t", "r", "i", "c", "t">>,
                                  <<"b", "a", "l", "a", "n", "c", "e", "d">>}
            THEN "strictness_mode must be one of [balanced strict]" ELSE NoError,
            resultsWanted.err, maxReturned.err, offset.err,
            IF hoursOld.has /\ hoursOld.err
            THEN "must be an integer when provided" ELSE NoError,
            requireSignal.err, refreshSession.err, scanMultiplier.err,
            IF maxScan.has /\ maxScan.err
            THEN "must be an integer when provided" ELSE NoError >>)
    IN [err |-> err,
        query |-> [user_id |-> userID,
                   site |-> site.site,
                   strictness_mode |-> strictness,
                   results_wanted |-> resultsWanted.val,
                   max_returned |-> maxReturned.val,
                   offset |-> offset.val,
                   hours_old |-> IF ~hoursOld.has THEN defaultSearchHoursOld
                                 ELSE Max2(1, hoursOld.val),
                   require_description_signal |-> requireSignal.val,
                   refresh_session |-> refreshSession.val,
                   scan_multiplier |-> scanMultiplier.val,
                   max_scan_results |-> IF ~maxScan.has THEN defaultSearchMaxScanResults
                                        ELSE Max2(resultsWanted.val, maxScan.val)]]

StartFields ==
    {"location", "job_title", "user_id", "site", "strictness_mode", "results_wanted",
     "max_returned", "offset", "hours_old", "require_description_signal",
     "refresh_session", "scan_multiplier", "max_scan_results"}

RequiredFields == {"location", "job_title", "user_id"}
IntFields == {"results_wanted", "max_returned", "offset", "hours_old",
              "scan_multiplier", "max_scan_results"}
BoolFields == {"require_description_signal", "refresh_session"}

\* the values a client sends for a field
FieldValues(f) ==
    IF f = "user_id" THEN {Absent, TextV(2), TextV(13)}
    ELSE IF f \in RequiredFields THEN {Absent, TextV(2), TextV(3), IntV(7)}
    ELSE IF f = "site" THEN {Absent, TextV(2), TextV(6), TextV(7), TextV(8)}
    ELSE IF f = "strictness_mode" THEN {Absent, TextV(9), TextV(10), TextV(11)}
    ELSE IF f \in IntFields
         THEN {Absent, IntV(-1), IntV(0), IntV(2), FloatV(4), FloatV(5), FloatV(-1),
               TextV(4), TextV(5), TextV(3), BoolV(TRUE)}
    ELSE {Absent, BoolV(TRUE), BoolV(FALSE), TextV(12), TextV(3), IntV(1)}

\* a call that passes validation with every optional argument left out
BaseStartArgs ==
    [f \in StartFields |-> IF f = "user_id" THEN TextV(13)
                           ELSE IF f \in RequiredFields THEN TextV(3)
                           ELSE Absent]

\* the calls that differ from it in arguments f1 and f2
StartArgsOf(f1, f2) ==
    {[f \in StartFields |-> IF f = f1 THEN v1 ELSE IF f = f2 THEN v2
                            ELSE BaseStartArgs[f]] :
        v1 \in FieldValues(f1), v2 \in FieldValues(f2)}

\* the calls that differ from it in at most two arguments
StartArgs == UNION {StartArgsOf(f1, f2) : f1 \in StartFields, f2 \in StartFields}

UserChars == [u \in Users |-> IF u = "u1" THEN <<"u", "1">> ELSE <<"u", "2">>]

UserNamed(chars) == CHOOSE u \in Users : UserChars[u] = chars

StartCalls == [op : {"start"}, pc : {"args"}, args : StartArgs, out : {EmptyDoc}]

\* the handler up to the run record: an error is returned at once
StartValidate ==
    /\ pure.op = "start" /\ pure.pc = "args"
    /\ LET v == startJobSearchQuery(pure.args)
       IN IF v.err # NoError
          THEN /\ pure' = [pure EXCEPT !.pc = "done", !.out = v]
               /\ ret' = [tool |-> "start", ok |-> FALSE]
          ELSE /\ pure' = [pure EXCEPT !.pc = "valid", !.out = v]
               /\ ret' = ret
    /\ UNCHANGED <<now, runFile, sessionFile, runMu, runMuStore, sessMu, sessMuStore,
                   nextRun, exec, call, spawned, enteredRunning, sessionWrites,
                   envMaxRuns, counters, gateVars, seen, given>>

\* the rest of the handler: the run record and its save
StartValidated ==
    \/ /\ pure.op = "start" /\ pure.pc = "valid"
       /\ StartLock(UserNamed(pure.out.query.user_id))
       /\ pure' = [pure EXCEPT !.pc = "started"]
       /\ UNCHANGED <<gateVars, seen, given>>
    \/ /\ pure.op = "start" /\ pure.pc = "started"
       /\ \E ok \in BOOLEAN : StartSave(UserNamed(pure.out.query.user_id), ok)
       /\ UNCHANGED <<gateVars, auxVars>>

StartNext ==
    \/ StartValidate
    \/ StartValidated
    \/ Tick /\ UNCHANGED <<gateVars, auxVars>>

StartInit ==
    /\ StoreInit /\ GateInit
    /\ seen = [polls |-> 0,
               runs |-> [r \in RunIds |-> [next_cursor |-> 0, events |-> EmptyDoc]]]
    /\ pure \in StartCalls
    /\ given = NothingGiven

StartSpec == StartInit /\ [][StartNext]_vars

(***************************************************************************)
(* C17: a start call with a missing location, job_title or user_id, an     *)
(* unsupported site, a strictness_mode outside {strict, balanced},         *)
(* results_wanted, max_returned or scan_multiplier below 1, a negative     *)
(* offset, or a non-integer or non-boolean value returns an error at once, *)
(* creates no run, leaves the run document unchanged and spawns no         *)
(* executor; every other start call creates a pending run and spawns its   *)
(* executor.                                                               *)
(***************************************************************************)
Missing(x) ==
    x.t = "absent" \/ (x.t = "text" /\ TrimSpace(TextTable[x.v]) = <<>>)

TextOf(x) == IF x.t = "text" THEN ToLower(TrimSpace(TextTable[x.v])) ELSE <<>>

NonInteger(x) ==
    \/ x.t = "bool"
    \/ x.t = "float" /\ x.v % 2 # 0
    \/ x.t = "text" /\ Atoi(TrimSpace(TextTable[x.v])).err

NonBoolean(x) ==
    \/ x.t \in {"int", "float"}
    \/ x.t = "text" /\ TextTable[x.v] # <<"t", "r", "u", "e">>

\* x is an integer below lowest
Below(x, lowest) ==
    \/ x.t = "int" /\ x.v < lowest
    \/ x.t = "float" /\ x.v % 2 = 0 /\ x.v \div 2 < lowest
    \/ x.t = "text" /\ ~Atoi(TrimSpace(TextTable[x.v])).err
                    /\ Atoi(TrimSpace(TextTable[x.v])).val < lowest

FailsValidation(a) ==
    \/ \E f \in RequiredFields : Missing(a[f])
    \/ TextOf(a["site"]) \notin {<<>>, Linkedin}
    \/ TextOf(a["strictness_mode"]) \notin
          {<<>>, <<"s", "t", "r", "i", "c", "t">>, <<"b", "a", "l", "a", "n", "c", "e", "d">>}
    \/ \E f \in {"results_wanted", "max_returned", "scan_multiplier"} : Below(a[f], 1)
    \/ Below(a["offset"], 0)
    \/ \E f \in IntFields : NonInteger(a[f])
    \/ \E f \in BoolFields : NonBoolean(a[f])

C17_StartValidation ==
    [][/\ (pure.op = "start" /\ pure.pc = "args" /\ pure'.pc # "args") =>
            IF FailsValidation(pure.args)
            THEN /\ pure'.pc = "done"
                 /\ ret'.tool = "start" /\ ~ret'.ok
                 /\ runFile' = runFile /\ nextRun' = nextRun
                 /\ spawned' = spawned /\ exec' = exec
            ELSE pure'.pc = "valid"
       /\ \A u \in Users :
            (call[u].op = "start" /\ call'[u].op = "idle") =>
                /\ ret'.tool = "start" /\ ret'.ok
                /\ call[u].run \in DOMAIN runFile'
                /\ runFile'[call[u].run].status = "pending"
                /\ spawned'[call[u].run] = 1]_vars

(***************************************************************************)
(* Runs under a given search mode and a given preferences file: the start  *)
(* tool, the background task, cancel and the clock.                        *)
(***************************************************************************)
ModeNext ==
    \/ Tick /\ UNCHANGED <<gateVars, auxVars>>
    \/ ReadStart /\ UNCHANGED <<gateVars, auxVars>>
    \/ Executor /\ UNCHANGED <<gateVars, auxVars>>
    \/ Cancel /\ UNCHANGED <<gateVars, auxVars>>

ModeInit ==
    /\ StoreInit /\ GateInit
    /\ seen = [polls |-> 0,
               runs |-> [r \in RunIds |-> [next_cursor |-> 0, events |-> EmptyDoc]]]
    /\ pure = NoCall
    /\ given \in [search_mode : SearchModes, preferences : PreferenceFiles,
                  site : Sites]

ModeSpec == ModeInit /\ [][ModeNext]_vars

HasEvent(run, phase) == \E k \in 1..Len(run.events) : run.events[k].phase = phase

\* C19: a run started in visa mode for a user with no saved preferences ends
\* failed, with an error message and a failed event, and writes no session;
\* only general-mode runs go on past the preferences step without preferences.
C19_VisaNeedsPreferences ==
    /\ \A r \in DOMAIN runFile :
         (/\ given.search_mode = searchModeVisa
          /\ given.preferences = "none"
          /\ exec[r].pc = "done"
          /\ ~runFile[r].cancel_requested)
            => /\ runFile[r].status = "failed"
               /\ runFile[r].error # ""
               /\ HasEvent(runFile[r], "failed")
               /\ runFile[r].search_session_id = NoSession
               /\ r \notin sessionWrites
    /\ \A r \in RunIds :
         (given.preferences = "none" /\ exec[r].pc = "q_dataset")
            => given.search_mode = searchModeGeneral

(***************************************************************************)
(* The envelope out of budget, seen from the steps of the task: a request  *)
(* made after MaxRetries retries that is throttled again.                  *)
(***************************************************************************)
ListingsExhausted(r) ==
    /\ given.site = "listings_throttled"
    /\ exec[r].pc = "q_fetch" /\ exec[r].retries >= MaxRetries
    /\ ~runCancelled(r)
    /\ exec'[r] # exec[r]

DetailsExhausted(r) ==
    /\ given.site = "details_throttled"
    /\ exec[r].pc = "q_desc_fetch" /\ exec[r].retries >= MaxRetries
    /\ ~runCancelled(r)
    /\ exec'[r] # exec[r]

\* the final update of a task whose query returned the rate-limit error
RateLimitedFinish(r) ==
    /\ exec[r].pc = "e_error" /\ exec[r].err = RateLimitedError
    /\ exec'[r].pc = "done"

EndsRateLimited(run) ==
    /\ run.status = "failed"
    /\ run.error = RateLimitedError
    /\ HasEvent(run, "failed")
    /\ run.search_session_id = NoSession

MaxWindow == 4
MaxInitialBackoff == 3
MaxMaxBackoff == 3

defaultRateLimitRetryWindowSec == 180
defaultRateLimitInitialBackoff == 2
defaultRateLimitMaxBackoff == 30

StatusTooManyRequests == 429
SlicesPerSecond == 4

\* the environment values rateLimit*Seconds() can return: the defaults and
\* every small setting, zero and negative included
EnvelopeConfigs ==
    {[window |-> defaultRateLimitRetryWindowSec,
      initial |-> defaultRateLimitInitialBackoff,
      max |-> defaultRateLimitMaxBackoff]}
      \cup [window : -1..MaxWindow, initial : -1..MaxInitialBackoff,
            max : -1..MaxMaxBackoff]

ErrHttp429 == <<"H", "T", "T", "P", " ", "4", "2", "9">>
ErrRateLimit == <<"R", "a", "t", "e", " ", "L", "i", "m", "i", "t">>
ErrTooMany ==
    <<"T", "O", "O", " ", "M", "A", "N", "Y", " ", "R", "E", "Q", "U", "E", "S", "T", "S">>
ErrTimeout == <<"t", "i", "m", "e", "o", "u", "t">>
ErrNearMiss == <<"r", "a", "t", "e", "-", "l", "i", "m", "i", "t", " ", "4", "2", " ", "9">>
ErrBodyRead == <<"E", "O", "F">>

Response(isErr, text, hasResp, status) ==
    [is_err |-> isErr, text |-> text, has_resp |-> hasResp, status |-> status]

\* what doRequest can return: (resp, nil), (nil, nil), (nil, err) and, when
\* reading the body of a response fails, (resp, err)
Responses ==
    {Response(FALSE, <<>>, TRUE, st) :
        st \in {200, 500, StatusTooManyRequests}}
      \cup {Response(FALSE, <<>>, FALSE, 0)}
      \cup {Response(TRUE, t, FALSE, 0) :
              t \in {ErrHttp429, ErrRateLimit, ErrTooMany, ErrTimeout, ErrNearMiss}}
      \cup {Response(TRUE, ErrBodyRead, TRUE, st) :
              st \in {200, StatusTooManyRequests}}

Contains(text, sub) ==
    \E i \in 1..(Len(text) - Len(sub) + 1) : SubSeq(text, i, i + Len(sub) - 1) = sub

\* search_linkedin.go:278-280
isRateLimitStatus(code) == code = StatusTooManyRequests

\* an error test that compares the text as it is
isRateLimitErrorCaseSensitive(r) ==
    /\ r.is_err
    /\ \/ Contains(r.text, <<"4", "2", "9">>)
       \/ Contains(r.text, <<"r", "a", "t", "e", " ", "l", "i", "m", "i", "t">>)
       \/ Contains(r.text, <<"t", "o", "o", " ", "m", "a", "n", "y", " ",
                             "r", "e", "q", "u", "e", "s", "t", "s">>)

\* search_linkedin.go:282-288
isRateLimitError(r) ==
    /\ r.is_err
    /\ LET text == ToLower(r.text)
       IN \/ Contains(text, <<"4", "2", "9">>)
          \/ Contains(text, <<"r", "a", "t", "e", " ", "l", "i", "m", "i", "t">>)
          \/ Contains(text, <<"t", "o", "o", " ", "m", "a", "n", "y", " ",
                              "r", "e", "q", "u", "e", "s", "t", "s">>)

\* search_linkedin.go:309-315
shouldRetry(r) ==
    \/ r.is_err /\ isRateLimitError(r)
    \/ ~r.is_err /\ r.has_resp /\ isRateLimitStatus(r.status)

EnvelopeEntry(cfg, cancelled) ==
    [op |-> "envelope", pc |-> "head", window |-> cfg.window,
     initial |-> cfg.initial, maxBackoff |-> cfg.max, backoff |-> cfg.initial,
     elapsed |-> 0, retries |-> 0, requests |-> 0, sleeps |-> <<>>,
     sleepFor |-> 0, left |-> 0, cancelled |-> cancelled,
     entered_cancelled |-> cancelled, last |-> Response(FALSE, <<>>, FALSE, 0),
     late_requests |-> 0,
     out |-> [kind |-> "none", text |-> <<>>]]

EnvelopeArgs ==
    {EnvelopeEntry(cfg, c) : cfg \in EnvelopeConfigs, c \in BOOLEAN}

Returned(e, kind, text) ==
    [e EXCEPT !.pc = "done", !.out = [kind |-> kind, text |-> text]]

\* a sleep that ignores the end of the retry window
BackoffSleepUnclamped(backoff, maxBackoff, remaining) == Min2(backoff, maxBackoff)

\* search_linkedin.go:329-336
BackoffSleep(backoff, maxBackoff, remaining) ==
    Min2(Min2(backoff, maxBackoff), remaining)

\* search_linkedin.go:326-343, after a throttled request
Throttled(e) ==
    LET sleepFor == BackoffSleep(e.backoff, e.maxBackoff, e.window - e.elapsed)
    IN IF e.elapsed >= e.window \/ sleepFor <= 0
       THEN Returned(e, "rate_limited", <<>>)
       ELSE [e EXCEPT !.pc = "slice", !.sleepFor = sleepFor,
                      !.left = SlicesPerSecond * sleepFor,
                      !.sleeps = Append(@, sleepFor)]

\* search_linkedin.go:304-325: what the envelope does with a response
AfterResponse(e, r) ==
    IF ~r.is_err /\ r.has_resp /\ ~isRateLimitStatus(r.status)
    THEN Returned(e, "response", <<>>)
    ELSE IF shouldRetry(r) THEN Throttled(e)
    ELSE IF r.is_err THEN Returned(e, "error", r.text)
    ELSE IF r.has_resp THEN Returned(e, "status_error", <<>>)
    ELSE Returned(e, "no_response", <<>>)

EnvelopeUnchanged == UNCHANGED <<storeVars, gateVars, seen, given>>

\* a probe at the loop head that is skipped
EnvelopeHeadNoProbe(e) == [e EXCEPT !.pc = "request"]

\* search_linkedin.go:300-303
EnvelopeHead(e) ==
    IF e.cancelled THEN Returned(e, "cancelled", <<>>)
    ELSE [e EXCEPT !.pc = "request"]

EnvelopeProbe ==
    /\ pure.op = "envelope" /\ pure.pc = "head"
    /\ pure' = EnvelopeHead(pure)
    /\ EnvelopeUnchanged

\* search_linkedin.go:304-343: doRequest and its classification
EnvelopeRequest ==
    /\ pure.op = "envelope" /\ pure.pc = "request"
    /\ \E r \in Responses :
         pure' = AfterResponse(
                    [pure EXCEPT !.requests = @ + 1, !.last = r,
                                 !.late_requests =
                                     IF pure.cancelled THEN @ + 1 ELSE @], r)
    /\ EnvelopeUnchanged

\* search_linkedin.go:340-346 and 350-374: one turn of the loop of
\* sleepWithCancel (probe, remaining time, one slice), and the bookkeeping
\* after the sleep
EnvelopeSlice ==
    /\ pure.op = "envelope" /\ pure.pc = "slice"
    /\ pure' = IF pure.cancelled THEN Returned(pure, "cancelled", <<>>)
               ELSE IF pure.left <= 0
               THEN [pure EXCEPT !.pc = "head", !.elapsed = @ + pure.sleepFor,
                                 !.retries = @ + 1, !.backoff = @ * 2]
               ELSE [pure EXCEPT !.left = @ - 1]
    /\ EnvelopeUnchanged

\* another goroutine sets cancel_requested while the envelope runs
EnvelopeCancel ==
    /\ pure.op = "envelope" /\ pure.pc # "done" /\ ~pure.cancelled
    /\ pure' = [pure EXCEPT !.cancelled = TRUE]
    /\ EnvelopeUnchanged

EnvelopeNext ==
    \/ EnvelopeProbe
    \/ EnvelopeRequest
    \/ EnvelopeSlice
    \/ EnvelopeCancel

EnvelopeInit ==
    /\ StoreInit /\ GateInit
    /\ seen = [polls |-> 0,
               runs |-> [r \in RunIds |-> [next_cursor |-> 0, events |-> EmptyDoc]]]
    /\ pure \in EnvelopeArgs
    /\ given = NothingGiven

EnvelopeSpec == EnvelopeInit /\ [][EnvelopeNext]_vars

\* the text holds the pattern at position i, letter case ignored
MatchesAt(text, i, pattern) ==
    /\ i + Len(pattern) - 1 <= Len(text)
    /\ \A k \in 1..Len(pattern) : ToLowerChar(text[i + k - 1]) = pattern[k]

Mentions(text, pattern) == \E i \in 1..Len(text) : MatchesAt(text, i, pattern)

ThrottleSignal(r) ==
    \/ r.has_resp /\ r.status = StatusTooManyRequests
    \/ /\ r.is_err
       /\ \/ Mentions(r.text, <<"4", "2", "9">>)
          \/ Mentions(r.text, <<"r", "a", "t", "e", " ", "l", "i", "m", "i", "t">>)
          \/ Mentions(r.text, <<"t", "o", "o", " ", "m", "a", "n", "y", " ",
                                "r", "e", "q", "u", "e", "s", "t", "s">>)

EnvelopeRequested == pure.op = "envelope" /\ pure'.requests = pure.requests + 1

\* C21: the envelope goes on to retry (sleeps, or finds its budget used up)
\* exactly when the response has status 429 or the error text mentions "429",
\* "rate limit" or "too many requests" in any letter case; every other
\* failure is returned at once, after that one request and no sleep; a
\* response without error and without status 429 is returned at once.
C21_RetryIffThrottled ==
    [][EnvelopeRequested =>
         LET r == pure'.last
             retried == pure'.pc = "slice" \/ pure'.out.kind = "rate_limited"
         IN /\ retried <=> ThrottleSignal(r)
            /\ ~ThrottleSignal(r)
                  => /\ pure'.pc = "done"
                     /\ pure'.sleeps = pure.sleeps
                     /\ pure'.out.kind \in
                           IF ~r.is_err /\ r.has_resp
                           THEN {"response"}
                           ELSE {"error", "status_error", "no_response"}
                     /\ pure.requests = 0
                           => pure'.requests = 1 /\ pure'.sleeps = <<>>]_vars

RECURSIVE Pow2(_)
Pow2(k) == IF k <= 0 THEN 1 ELSE 2 * Pow2(k - 1)

RECURSIVE SumTo(_, _)
SumTo(s, n) == IF n <= 0 THEN 0 ELSE s[n] + SumTo(s, n - 1)

DefaultEnvelope ==
    /\ pure.window = defaultRateLimitRetryWindowSec
    /\ pure.initial = defaultRateLimitInitialBackoff
    /\ pure.maxBackoff = defaultRateLimitMaxBackoff

SleepSchedule ==
    pure.op = "envelope" =>
        /\ \A k \in 1..Len(pure.sleeps) :
              /\ pure.sleeps[k] =
                    Min2(Min2(pure.initial * Pow2(k - 1), pure.maxBackoff),
                         pure.window - SumTo(pure.sleeps, k - 1))
              /\ pure.sleeps[k] > 0
        /\ SumTo(pure.sleeps, Len(pure.sleeps)) <= Max2(pure.window, 0)
        /\ pure.elapsed <= SumTo(pure.sleeps, Len(pure.sleeps))
        /\ pure.retries <= Len(pure.sleeps)
        /\ pure.requests <= Len(pure.sleeps) + 1
        /\ Len(pure.sleeps) <= Max2(pure.window, 0)
        /\ (DefaultEnvelope /\ pure.out.kind = "rate_limited")
              => /\ pure.sleeps = <<2, 4, 8, 16, 30, 30, 30, 30, 30>>
                 /\ pure.requests = 10

\* C22: under throttling the k-th sleep of the envelope is
\* min(initial * 2^k, max_backoff, retry_window - elapsed) and is positive,
\* the sleeps add up to at most retry_window, the number of requests is
\* bounded by the number of sleeps plus one, and a throttled request made
\* with no budget left returns the rate-limit error at once; with the
\* defaults the sleeps are 2, 4, 8, 16, 30, 30, 30, 30, 30.
C22_BackoffSchedule ==
    /\ []SleepSchedule
    /\ [][(EnvelopeRequested /\ shouldRetry(pure'.last)
             /\ pure.window - pure.elapsed <= 0)
            => /\ pure'.out.kind = "rate_limited"
               /\ pure'.requests = pure.requests + 1
               /\ pure'.sleeps = pure.sleeps]_vars

C22_Witness ==
    /\ pure.op = "envelope" /\ DefaultEnvelope
    /\ pure.out.kind = "rate_limited"
    /\ Len(pure.sleeps) = 9 /\ pure.elapsed = defaultRateLimitRetryWindowSec

EnvelopeStep == pure.op = "envelope" /\ pure' # pure /\ pure'.cancelled = pure.cancelled

EnteredCancelled ==
    (pure.op = "envelope" /\ pure.entered_cancelled /\ pure.pc = "done")
        => pure.requests = 0 /\ pure.out.kind = "cancelled"

\* C23 (as claimed): entered with the probe true the envelope makes no request
\* and returns the cancelled error; once the probe has become true the
\* envelope makes no further request and its next step returns the cancelled
\* error.
C23_Cancellable ==
    /\ []EnteredCancelled
    /\ [][(EnvelopeStep /\ pure.cancelled)
            => /\ pure'.requests = pure.requests
               /\ pure'.out.kind = "cancelled"]_vars

\* C23 (amended): entered with the probe true the envelope makes no request
\* and returns the cancelled error; every request follows a probe that read
\* false and every slice of a sleep, of 250ms, follows one too; a probe that
\* reads true returns the cancelled error with no further request; a flag set
\* after the probe of a request does not stop that one request, whose outcome
\* is returned unless it is a throttle with budget left, and no second request
\* is made.
C23_CancelObserved ==
    /\ []EnteredCancelled
    /\ [](pure.op = "envelope" => pure.late_requests <= 1)
    /\ [][EnvelopeStep =>
            /\ (pure.pc \in {"head", "slice"} /\ pure.cancelled)
                  => /\ pure'.out.kind = "cancelled"
                     /\ pure'.requests = pure.requests
            /\ pure'.requests # pure.requests => pure.pc = "request"
            /\ (pure'.pc = "request" /\ pure.pc # "request")
                  => pure.pc = "head" /\ ~pure.cancelled
            /\ (pure.pc = "slice" /\ pure'.left # pure.left)
                  => ~pure.cancelled /\ pure'.left = pure.left - 1
            /\ (pure.pc = "request" /\ pure.cancelled)
                  => \/ pure'.pc = "done" /\ pure'.out.kind # "cancelled"
                     \/ pure'.pc = "slice"]_vars

C23_Witness ==
    /\ pure.op = "envelope" /\ ~pure.entered_cancelled
    /\ pure.late_requests = 1
    /\ pure.requests >= 2
    /\ pure.out.kind = "cancelled"

(***************************************************************************)
(* The filter loop of executeSearchQuery (search_query.go:116-335) and the *)
(* part of the response built from it (search_query.go:337-420), as a step *)
(* machine held in `pure`: the query is drawn at the start, one candidate  *)
(* is drawn per iteration, and the wall clock may advance between any two  *)
(* steps, in particular between the budget check and the detail request.   *)
(***************************************************************************)
MaxFilterJobs == 3
MaxFetchLimit == 1
MaxBudgetSeconds == 1
MaxFilterClock == 1
MaxRequiredAccepted == 2

\* search_query.go:553 the runes that end a token: everything that is not a
\* letter, a digit, '+' or '#'
TokenRunes ==
    {"a", "b", "c", "d", "e", "f", "g", "h", "i", "j", "k", "l", "m", "n",
     "o", "p", "q", "r", "s", "t", "u", "v", "w", "x", "y", "z",
     "0", "1", "2", "3", "4", "5", "6", "7", "8", "9", "+", "#"}

RECURSIVE FieldsFunc(_, _, _)
FieldsFunc(s, cur, out) ==
    IF s = <<>> THEN (IF cur = <<>> THEN out ELSE Append(out, cur))
    ELSE IF Head(s) \notin TokenRunes
         THEN FieldsFunc(Tail(s), <<>>, IF cur = <<>> THEN out ELSE Append(out, cur))
         ELSE FieldsFunc(Tail(s), Append(cur, Head(s)), out)

\* search_query.go:550-562
tokenizeSearchText(value) == FieldsFunc(ToLower(value), <<>>, <<>>)

\* strings.Contains on character sequences
ContainsSeq(text, part) ==
    \E i \in 1..(Len(text) - Len(part) + 1) : SubSeq(text, i, i + Len(part) - 1) = part

\* a variant of the title match that treats every one-token request as a
\* substring query
jobMatchesRequestedTitleLoose(requestedTitle, jobTitle) ==
    LET requested == tokenizeSearchText(requestedTitle)
        titleTokens == tokenizeSearchText(jobTitle)
        titleSet == {titleTokens[k] : k \in 1..Len(titleTokens)}
        matches == Cardinality({k \in 1..Len(requested) : requested[k] \in titleSet})
    IN IF Len(requested) = 0 THEN TRUE
       ELSE IF Len(requested) = 1
            THEN matches > 0 \/ ContainsSeq(ToLower(jobTitle), requested[1])
            ELSE matches >= 1

\* search_query.go:564-597
jobMatchesRequestedTitle(requestedTitle, jobTitle) ==
    LET requested == tokenizeSearchText(requestedTitle)
        titleTokens == tokenizeSearchText(jobTitle)
        titleSet == {titleTokens[k] : k \in 1..Len(titleTokens)}
        matches == Cardinality({k \in 1..Len(requested) : requested[k] \in titleSet})
        required == IF Len(requested) >= 3 THEN 2 ELSE 1
    IN IF Len(requested) = 0 THEN TRUE
       ELSE IF Len(titleTokens) = 0 THEN FALSE
       ELSE IF Len(requested) = 1
            THEN IF Len(requested[1]) <= 2 THEN matches > 0
                 ELSE matches > 0 \/ ContainsSeq(ToLower(jobTitle), requested[1])
            ELSE matches >= required

\* requested titles: punctuation only, one short token, one long token, two
\* tokens, three tokens
RequestedTitles ==
    << <<"-", "-">>,
       <<"g", "o">>,
       <<"S", "Q", "L">>,
       <<"D", "a", "t", "a", " ", "E", "n", "g">>,
       <<"S", "r", " ", "D", "a", "t", "a", " ", "E", "n", "g">> >>

\* titles of scraped jobs: "Go Dev", "Golang", "MySQL-DBA", "Data Sci",
\* "Sr. Eng", "Sr Data Sci" and an empty title
JobTitles ==
    << <<"G", "o", " ", "D", "e", "v">>,
       <<"G", "o", "l", "a", "n", "g">>,
       <<"M", "y", "S", "Q", "L", "-", "D", "B", "A">>,
       <<"D", "a", "t", "a", " ", "S", "c", "i">>,
       <<"S", "r", ".", " ", "E", "n", "g">>,
       <<"S", "r", " ", "D", "a", "t", "a", " ", "S", "c", "i">>,
       <<>> >>

\* a job description as the filter reads it: whether it is empty or only
\* white space, and what detectDescriptionSignals finds in it
Description(kind, positive, negative, mentioned) ==
    [kind |-> kind, positive |-> positive, negative |-> negative, mentioned |-> mentioned]

EmptyDescription == Description("empty", FALSE, FALSE, {})
BlankDescription == Description("blank", FALSE, FALSE, {})

Descriptions ==
    {EmptyDescription, BlankDescription}
    \cup {Description("text", p, n, m) :
            p \in BOOLEAN, n \in BOOLEAN, m \in {{}, {"h1b"}, {"green_card"}}}

\* search_eval.go:29-66: the three results of the pattern scan of a text
detectDescriptionSignals(text) ==
    [positive |-> text.positive, negative |-> text.negative, mentioned |-> text.mentioned]

\* search_eval.go:68-77
hasDesiredMention(mentioned, desired) ==
    \E k \in 1..Len(desired) : desired[k] \in mentioned

\* a variant of the acceptance rule in which balanced strictness accepts a
\* positive description without a mention of a desired visa type
shouldAcceptJobBalancedLoose(strictness, desiredCount, positive, negative, desiredMention, requireSignal) ==
    IF negative THEN FALSE
    ELSE IF requireSignal /\ ~(positive /\ desiredMention) THEN FALSE
    ELSE IF desiredCount > 0 \/ (positive /\ desiredMention) THEN TRUE
    ELSE IF strictness = "balanced" THEN positive
    ELSE FALSE

\* search_eval.go:160-184
shouldAcceptJob(strictness, desiredCount, positive, negative, desiredMention, requireSignal) ==
    LET companyEligible == desiredCount > 0
        descriptionEligible == positive /\ desiredMention
    IN IF negative THEN FALSE
       ELSE IF requireSignal /\ ~descriptionEligible THEN FALSE
       ELSE IF companyEligible \/ descriptionEligible THEN TRUE
       ELSE IF strictness = "balanced" THEN FALSE
       ELSE FALSE

\* search_eval.go:124-136
visaMatchStrength(desiredCount, desiredMention, positive) ==
    IF desiredCount > 0 /\ desiredMention THEN "strong"
    ELSE IF desiredCount > 0 THEN "company_dataset"
    ELSE IF desiredMention /\ positive THEN "description_signal"
    ELSE "weak"

\* A score is a number of thousandths; a confidence_score is a number of
\* hundredths.  math.Round(score*100)/100: the nearest hundredth, halves away
\* from zero (the score is not negative here)
RoundToHundredths(thousandths) == (thousandths + 5) \div 10

\* desired_count/50
PerFifty(desiredCount) == (1000 * desiredCount) \div 50

\* the score of search_eval.go:98-115 before the clamp
rawConfidence(desiredCount, totalCount, positive, negative, desiredMention) ==
    (IF desiredCount > 0 THEN 650 + Min2(200, PerFifty(desiredCount)) ELSE 0)
    + (IF positive THEN 100 ELSE 0)
    + (IF desiredMention THEN 200 ELSE 0)
    - (IF negative THEN 600 ELSE 0)
    + (IF desiredCount = 0 /\ totalCount > 0 THEN 50 ELSE 0)

\* a variant of confidenceScore without the clamp of lines 116-121
confidenceScoreUnclamped(desiredCount, totalCount, positive, negative, desiredMention) ==
    LET score == rawConfidence(desiredCount, totalCount, positive, negative, desiredMention)
    IN IF score >= 0 THEN RoundToHundredths(score) ELSE -RoundToHundredths(-score)

\* search_eval.go:91-123
confidenceScore(desiredCount, totalCount, positive, negative, desiredMention) ==
    LET score == rawConfidence(desiredCount, totalCount, positive, negative, desiredMention)
    IN RoundToHundredths(Max2(0, Min2(1000, score)))

\* search_query.go:523-535, in hundredths
generalConfidenceScore(hasCompany, fetchedDescription) ==
    Min2(100, 55 + (IF hasCompany THEN 20 ELSE 0) + (IF fetchedDescription THEN 15 ELSE 0))

\* a variant of the budget check that looks at the counter only
canFetchDescriptionNoDeadline(descriptionFetches, descriptionFetchLimit, clock, descriptionDeadline) ==
    descriptionFetches < descriptionFetchLimit

\* search_query.go:174
canFetchDescription(descriptionFetches, descriptionFetchLimit, clock, descriptionDeadline) ==
    descriptionFetches < descriptionFetchLimit /\ clock < descriptionDeadline

\* the configured budget, read once per run (search_query.go:123-124)
maxDescriptionFetches == 0..MaxFetchLimit
descriptionBudgetSeconds == 0..MaxBudgetSeconds

Strictnesses == {"strict", "balanced"}

NoCandidate == [desired_count |-> 0, total_count |-> 0, has_company |-> FALSE, title |-> 0]

\* Go's int is kept as a two's-complement word of IntBits bits, so that a sum
\* or a product wraps as it does in the program; the word is narrower than the
\* 64 bits of the build and the inputs are scaled with it
IntBits == 16

IntModulus == 2 ^ IntBits

\* the value an int holds after an operation whose exact result is x
WrapInt(x) ==
    LET m == x % IntModulus
    IN IF m >= IntModulus \div 2 THEN m - IntModulus ELSE m

MaxInt == (IntModulus \div 2) - 1

\* a variant of requiredAccepted that adds results_wanted to the page end
requiredAcceptedSum(query) ==
    query.results_wanted + query.offset + query.max_returned

\* search_query.go:43-49
requiredAccepted(query) ==
    LET sum == WrapInt(query.offset + query.max_returned)
        wanted == IF sum > query.results_wanted THEN sum ELSE query.results_wanted
    IN IF wanted < 1 THEN 1 ELSE wanted

\* the pagination arguments of the queries the filter loop is run with
FilterQueries ==
    {[results_wanted |-> w, offset |-> o, max_returned |-> 1, scan_multiplier |-> 1,
      max_scan_results |-> defaultSearchMaxScanResults] :
        w \in 1..MaxRequiredAccepted, o \in {0, 1, MaxInt}}

\* the local variables of executeSearchQuery at the head of the filter loop
FilterEntry(mode, preferences, strictness, require, title, limit, budget, query) ==
    LET loaded == desiredVisaTypesOf(mode, preferences)
    IN [op |-> "filter", pc |-> "loop",
        search_mode |-> mode,
        preferences |-> preferences,
        visa_filtering |-> loaded.visa_filtering,
        desired_visa_types |-> loaded.types,
        strictness |-> strictness,
        require_description_signal |-> require,
        job_title |-> title,
        limit |-> limit,
        deadline |-> budget,
        query |-> query,
        required_accepted |-> requiredAccepted(query),
        clock |-> 0,
        idx |-> 0,
        fetches |-> 0,
        skipped |-> 0,
        budget_hit |-> FALSE,
        cand |-> NoCandidate,
        text |-> EmptyDescription,
        fetched |-> FALSE,
        accepted |-> <<>>,
        out |-> [kind |-> "running"]]

\* the queries: strictness is read by the visa rule only and the requested
\* title by the general rule only (search_query.go:226-248), so each is varied
\* where it is read
FilterArgs ==
    {FilterEntry(searchModeVisa, "saved", s, q, 4, l, b, w) :
        s \in Strictnesses, q \in BOOLEAN, l \in maxDescriptionFetches,
        b \in descriptionBudgetSeconds, w \in FilterQueries}
    \cup {FilterEntry(m[1], m[2], "strict", q, t, l, b, w) :
        m \in {<<searchModeGeneral, "none">>, <<searchModeGeneral, "saved">>,
               <<searchModeVisa, "none">>},
        q \in BOOLEAN, t \in 1..Len(RequestedTitles), l \in maxDescriptionFetches,
        b \in descriptionBudgetSeconds, w \in FilterQueries}

FilterUnchanged == UNCHANGED <<storeVars, gateVars, seen, given>>

\* the wall clock advances while the loop runs
FilterTick ==
    /\ pure.op = "filter"
    /\ pure.pc # "done"
    /\ pure.clock < MaxFilterClock
    /\ pure' = [pure EXCEPT !.clock = @ + 1]
    /\ FilterUnchanged

\* search_query.go:126-200 the head of one iteration: the ignored jobs and
\* companies, the dataset lookup and the budget check
FilterTake ==
    /\ pure.op = "filter"
    /\ pure.pc = "loop"
    /\ pure.idx < MaxFilterJobs
    /\ \E ignored \in BOOLEAN, hasCompany \in BOOLEAN, count \in 0..1, total \in 0..1,
          title \in 1..Len(JobTitles) :
        LET desiredCount ==
                IF hasCompany /\ Len(pure.desired_visa_types) > 0 THEN count ELSE 0
            totalCount == IF hasCompany THEN total ELSE 0
            needsDescription ==
                pure.require_description_signal
                \/ (pure.visa_filtering /\ desiredCount = 0)
            can == canFetchDescription(pure.fetches, pure.limit, pure.clock, pure.deadline)
            taken == [pure EXCEPT !.idx = @ + 1,
                                  !.cand = [desired_count |-> desiredCount,
                                            total_count |-> totalCount,
                                            has_company |-> hasCompany, title |-> title],
                                  !.text = EmptyDescription,
                                  !.fetched = FALSE]
        IN pure' =
            IF ignored THEN [pure EXCEPT !.idx = @ + 1]
            ELSE IF ~needsDescription THEN [taken EXCEPT !.pc = "eval"]
            ELSE IF can THEN [taken EXCEPT !.pc = "fetch"]
            ELSE [taken EXCEPT !.pc = "eval", !.budget_hit = TRUE, !.skipped = @ + 1]
    /\ FilterUnchanged

\* search_query.go:187-216 the detail request: a failure other than a
\* cancellation leaves the description empty, and the attempt is counted
FilterFetch ==
    /\ pure.op = "filter"
    /\ pure.pc = "fetch"
    /\ \E failed \in BOOLEAN, text \in Descriptions :
        pure' = [pure EXCEPT
                    !.pc = "eval",
                    !.text = IF failed THEN EmptyDescription ELSE text,
                    !.fetched = ~failed /\ text.kind # "empty",
                    !.fetches = @ + 1]
    /\ FilterUnchanged

\* search_query.go:243-248 the decision on one candidate
acceptJob(e) ==
    LET signals == detectDescriptionSignals(e.text)
        desired == hasDesiredMention(signals.mentioned, e.desired_visa_types)
    IN IF e.visa_filtering
       THEN shouldAcceptJob(e.strictness, e.cand.desired_count, signals.positive,
                            signals.negative, desired, e.require_description_signal)
       ELSE ~(e.require_description_signal /\ e.text.kind # "text")

\* search_query.go:221-323 the evaluation of the candidate and the record
\* appended for an accepted one
FilterEvaluate ==
    /\ pure.op = "filter"
    /\ pure.pc = "eval"
    /\ LET signals == detectDescriptionSignals(pure.text)
           desired == hasDesiredMention(signals.mentioned, pure.desired_visa_types)
           titleOk == jobMatchesRequestedTitle(RequestedTitles[pure.job_title],
                                               JobTitles[pure.cand.title])
           job == [raw_index |-> pure.idx,
                   title |-> pure.cand.title,
                   negative |-> signals.negative,
                   description_fetched |-> pure.fetched,
                   confidence_score |->
                       IF ~pure.visa_filtering
                       THEN generalConfidenceScore(pure.cand.has_company, pure.fetched)
                       ELSE confidenceScore(pure.cand.desired_count, pure.cand.total_count,
                                            signals.positive, signals.negative, desired),
                   visa_match_strength |->
                       IF ~pure.visa_filtering THEN "not_requested"
                       ELSE visaMatchStrength(pure.cand.desired_count, desired,
                                              signals.positive)]
           next == [pure EXCEPT !.cand = NoCandidate, !.text = EmptyDescription,
                                !.fetched = FALSE]
       IN pure' =
            IF ~pure.visa_filtering /\ ~titleOk THEN [next EXCEPT !.pc = "loop"]
            ELSE IF ~acceptJob(pure) THEN [next EXCEPT !.pc = "loop"]
            ELSE IF Len(pure.accepted) + 1 >= pure.required_accepted
                 THEN [next EXCEPT !.pc = "full", !.accepted = Append(@, job)]
                 ELSE [next EXCEPT !.pc = "loop", !.accepted = Append(@, job)]
    /\ FilterUnchanged

\* search_query.go:337-420 the end of the loop, at the last candidate or at
\* the first accepted job that fills the request, and the response
FilterFinish ==
    /\ pure.op = "filter"
    /\ pure.pc \in {"loop", "full"}
    /\ pure' = [pure EXCEPT
            !.pc = "done",
            !.out = [kind |-> "response",
                     visa_filtering |-> pure.visa_filtering,
                     desired_visa_types |-> pure.desired_visa_types,
                     jobs |-> pure.accepted,
                     description_fetches |-> pure.fetches,
                     description_fetch_skipped |-> pure.skipped,
                     description_budget_hit |-> pure.budget_hit,
                     recovery_suggestions |->
                        (IF Len(pure.accepted) = 0 THEN {"related_titles"} ELSE {})
                        \cup (IF pure.budget_hit
                              THEN {"description_probe_budget_reached"} ELSE {})]]
    /\ FilterUnchanged

MaxDesiredCount == 2

\* the arguments of one call of shouldAcceptJob
AcceptArgs ==
    {[op |-> "accept", pc |-> "call", strictness |-> s, desired_count |-> c,
      positive |-> p, negative |-> n, desired_mention |-> d,
      require_description_signal |-> q, out |-> [kind |-> "running"]] :
        s \in Strictnesses, c \in 0..MaxDesiredCount, p \in BOOLEAN, n \in BOOLEAN,
        d \in BOOLEAN, q \in BOOLEAN}

\* search_eval.go:160-184 one call of the acceptance rule
AcceptCall ==
    /\ pure.op = "accept"
    /\ pure.pc = "call"
    /\ pure' = [pure EXCEPT
            !.pc = "done",
            !.out = [kind |-> "decision",
                     accept |-> shouldAcceptJob(pure.strictness, pure.desired_count,
                                                pure.positive, pure.negative,
                                                pure.desired_mention,
                                                pure.require_description_signal)]]
    /\ FilterUnchanged

MaxConfidenceCount == 11

\* the arguments of one call of confidenceScore
ConfidenceArgs ==
    {[op |-> "confidence", pc |-> "call", desired_count |-> c, total_count |-> t,
      positive |-> p, negative |-> n, desired_mention |-> d, out |-> [kind |-> "running"]] :
        c \in 0..MaxConfidenceCount, t \in 0..1, p \in BOOLEAN, n \in BOOLEAN,
        d \in BOOLEAN}

\* search_query.go:264 one call of confidenceScore
ConfidenceCall ==
    /\ pure.op = "confidence"
    /\ pure.pc = "call"
    /\ pure' = [pure EXCEPT
            !.pc = "done",
            !.out = [kind |-> "score",
                     confidence_score |->
                        confidenceScore(pure.desired_count, pure.total_count,
                                        pure.positive, pure.negative,
                                        pure.desired_mention)]]
    /\ FilterUnchanged

FilterNext ==
    \/ ConfidenceCall
    \/ FilterTick
    \/ FilterTake
    \/ FilterFetch
    \/ FilterEvaluate
    \/ FilterFinish
    \/ AcceptCall

FilterInit ==
    /\ StoreInit /\ GateInit
    /\ seen = [polls |-> 0,
               runs |-> [r \in RunIds |-> [next_cursor |-> 0, events |-> EmptyDoc]]]
    /\ pure \in FilterArgs \cup AcceptArgs \cup ConfidenceArgs
    /\ given = NothingGiven

FilterSpec == FilterInit /\ [][FilterNext]_vars

(***************************************************************************)
(* The description-fetch budget                                            *)
(***************************************************************************)
FilterStep == pure.op = "filter" /\ pure'.op = "filter"

\* a detail request is made in this step, at the clock of the step
FetchAttempted == FilterStep /\ pure'.fetches = pure.fetches + 1

\* the budget check lets the candidate of this step through to a request
FetchAllowed == FilterStep /\ pure.pc = "loop" /\ pure'.pc = "fetch"

\* this step takes a candidate that is not ignored
CandidateTaken == FilterStep /\ pure.pc = "loop" /\ pure'.cand # NoCandidate

NeedsDescription(e) ==
    e.require_description_signal \/ (e.visa_filtering /\ e.cand.desired_count = 0)

BudgetSpent(e) == e.fetches >= e.limit \/ e.clock >= e.deadline

\* what the budget does with a candidate it denies, and what the response
\* says about it
DeniedIsSkipped ==
    CandidateTaken /\ NeedsDescription(pure') /\ BudgetSpent(pure)
        => /\ pure'.skipped = pure.skipped + 1
           /\ pure'.fetches = pure.fetches
           /\ pure'.pc = "eval"
           /\ pure'.text = EmptyDescription

SkippedOnlyWhenDenied ==
    FilterStep /\ pure'.skipped # pure.skipped
        => CandidateTaken /\ NeedsDescription(pure') /\ BudgetSpent(pure)

BudgetReported ==
    pure.op = "filter" /\ pure.pc = "done"
        => /\ ("description_probe_budget_reached" \in pure.out.recovery_suggestions
                <=> pure.skipped > 0)
           /\ pure.out.description_fetch_skipped = pure.skipped
           /\ pure.out.description_fetches = pure.fetches

FetchesWithinLimit == pure.op = "filter" => pure.fetches <= pure.limit

\* C24: within one run the number of detail requests never exceeds
\* max_description_fetches and no request is made at or after the description
\* deadline; a candidate that needs a description and is denied by the budget
\* increments description_fetch_skipped and is evaluated without a description;
\* the response carries description_probe_budget_reached exactly when a
\* candidate was denied
C24_FetchBudget ==
    /\ [](FetchesWithinLimit /\ BudgetReported)
    /\ [][/\ (FetchAttempted => pure.clock < pure.deadline)
          /\ DeniedIsSkipped
          /\ SkippedOnlyWhenDenied]_vars

\* C24 as the code has it: the deadline is compared with the clock read at the
\* budget check of the candidate, so a request is allowed only before the
\* deadline and below the limit, and it is made after the check
C24_FetchBudgetAtCheck ==
    /\ [](FetchesWithinLimit /\ BudgetReported)
    /\ [][/\ (FetchAllowed => pure.clock < pure.deadline /\ pure.fetches < pure.limit)
          /\ (FetchAttempted => pure.pc = "fetch")
          /\ DeniedIsSkipped
          /\ SkippedOnlyWhenDenied]_vars

\* a finished run that spent its whole budget and then denied a candidate
C24_Witness ==
    /\ pure.op = "filter"
    /\ pure.pc = "done"
    /\ pure.limit > 0
    /\ pure.fetches = pure.limit
    /\ pure.skipped > 0
    /\ "description_probe_budget_reached" \in pure.out.recovery_suggestions

(***************************************************************************)
(* The acceptance rule of a visa-filtered run                              *)
(***************************************************************************)
\* the rule as a predicate of the six values, strictness not among them
AcceptanceRule(desiredCount, positive, negative, desiredMention, requireSignal) ==
    /\ ~negative
    /\ (~requireSignal \/ (positive /\ desiredMention))
    /\ (desiredCount > 0 \/ (positive /\ desiredMention))

\* the decision of a finished call of shouldAcceptJob
AcceptDecided ==
    pure.op = "accept" /\ pure.pc = "done"
        => (pure.out.accept
            <=> AcceptanceRule(pure.desired_count, pure.positive, pure.negative,
                               pure.desired_mention, pure.require_description_signal))

\* this step decides on the candidate under evaluation
Evaluated == FilterStep /\ pure.pc = "eval" /\ pure'.pc # "eval"

\* the candidate under evaluation is appended to the accepted jobs
JobAccepted == Evaluated /\ Len(pure'.accepted) = Len(pure.accepted) + 1

\* the decision of the loop on the candidate of a visa-filtered run
LoopDecided ==
    Evaluated /\ pure.visa_filtering
        => (JobAccepted
            <=> AcceptanceRule(pure.cand.desired_count, pure.text.positive,
                               pure.text.negative,
                               pure.text.mentioned \cap {"h1b"} # {},
                               pure.require_description_signal))

NoNegativeAccepted ==
    pure.op = "filter" /\ pure.visa_filtering
        => \A k \in 1..Len(pure.accepted) : ~pure.accepted[k].negative

\* C25: with visa filtering on, for every strictness, desired count and
\* combination of the four flags, a job is accepted iff it is not negative,
\* and the description signal is not required or is present (positive with a
\* desired mention), and the company sponsors a desired type or the signal is
\* present; strict and balanced decide alike; no accepted job of a
\* visa-filtered run has a negative description
C25_AcceptanceRule ==
    /\ [](AcceptDecided /\ NoNegativeAccepted)
    /\ [][LoopDecided]_vars

\* a balanced call on a positive description that mentions no desired type
\* and a company without records, which is rejected
C25_Witness ==
    /\ pure.op = "accept"
    /\ pure.pc = "done"
    /\ pure.strictness = "balanced"
    /\ pure.positive /\ ~pure.negative /\ ~pure.desired_mention
    /\ pure.desired_count = 0
    /\ ~pure.out.accept

(***************************************************************************)
(* Runs without visa filtering                                             *)
(***************************************************************************)
\* the tokens of a text, stated by their positions: the maximal runs of
\* letters, digits, '+' and '#' of the lowercased text
TokenSpans(s) ==
    {sp \in (1..Len(s)) \X (1..Len(s)) :
        /\ sp[1] <= sp[2]
        /\ \A k \in sp[1]..sp[2] : ToLower(s)[k] \in TokenRunes
        /\ (sp[1] = 1 \/ ToLower(s)[sp[1] - 1] \notin TokenRunes)
        /\ (sp[2] = Len(s) \/ ToLower(s)[sp[2] + 1] \notin TokenRunes)}

TokenAt(s, sp) == SubSeq(ToLower(s), sp[1], sp[2])

TokenSet(s) == {TokenAt(s, sp) : sp \in TokenSpans(s)}

\* the title-match rule: one long token matches by membership or as a
\* substring, one short token by membership, two tokens by one common token,
\* three or more by two; a request without tokens excludes no title
TitleRule(requested, title) ==
    LET spans == TokenSpans(requested)
        overlap == Cardinality({sp \in spans : TokenAt(requested, sp) \in TokenSet(title)})
    IN CASE Cardinality(spans) = 0 -> TRUE
         [] Cardinality(spans) = 1 ->
                LET only == TokenAt(requested, CHOOSE sp \in spans : TRUE)
                IN IF Len(only) > 2
                   THEN overlap >= 1 \/ ContainsSeq(ToLower(title), only)
                   ELSE overlap >= 1
         [] Cardinality(spans) = 2 -> overlap >= 1
         [] OTHER -> overlap >= 2

\* a general-mode run of a user without preferences is not refused for the
\* missing preferences and ends in a response
GeneralRunProceeds ==
    pure.op = "filter" /\ pure.search_mode = searchModeGeneral /\ pure.preferences = "none"
        => /\ desiredVisaTypesOf(pure.search_mode, pure.preferences).err = ""
           /\ ~pure.visa_filtering
           /\ (pure.pc = "done" => pure.out.kind = "response")

UnfilteredResponse ==
    pure.op = "filter" /\ pure.pc = "done" /\ ~pure.visa_filtering
        => /\ pure.out.visa_filtering = FALSE
           /\ pure.out.desired_visa_types = <<>>
           /\ \A k \in 1..Len(pure.out.jobs) :
                /\ pure.out.jobs[k].visa_match_strength = "not_requested"
                /\ TitleRule(RequestedTitles[pure.job_title],
                             JobTitles[pure.out.jobs[k].title])

\* C26: a general-mode run of a user without preferences goes through to its
\* response; whenever visa filtering is off, the response has visa_filtering
\* false and no desired visa types, and every accepted job has
\* visa_match_strength "not_requested" and a title that matches the requested
\* title under the tokenized title-match rule
C26_GeneralMode == GeneralRunProceeds /\ UnfilteredResponse

\* a general-mode run without preferences that accepted "MySQL-DBA" for the
\* request "SQL"
C26_Witness ==
    /\ pure.op = "filter"
    /\ pure.pc = "done"
    /\ pure.search_mode = searchModeGeneral
    /\ pure.preferences = "none"
    /\ RequestedTitles[pure.job_title] = <<"S", "Q", "L">>
    /\ Len(pure.out.jobs) > 0
    /\ JobTitles[pure.out.jobs[1].title] = <<"M", "y", "S", "Q", "L", "-", "D", "B", "A">>

(***************************************************************************)
(* Pruning of the run store.  The run document outlives the process: the   *)
(* store starts with the runs an earlier life left on disk, some of them   *)
(* expired since, and the callers that write it are start, cancel and      *)
(* delete_user_data; VISA_MAX_SEARCH_RUNS is read at every prune.          *)
(***************************************************************************)
\* a run started and failed at time t
PriorRun(r, u, t) == FailedUpdater(NewRun(r, u, t), t, "failed")

\* the age of a run left on disk: expired now, expiring at the next step of
\* the clock, or written this very second
PriorRunTimes == {0 - ClockStep, 1 - ClockStep, 0}

MaxRunsValues == {1, defaultSearchMaxRuns}

PruneInit ==
    /\ \E k \in 1..MaxStarts :
       \E owner \in [1..k -> Users], at \in [1..k -> PriorRunTimes] :
            /\ runFile = [r \in 1..k |-> PriorRun(r, owner[r], at[r])]
            /\ nextRun = k + 1
            /\ exec = [r \in RunIds |-> IF r <= k THEN DoneExec ELSE IdleExec]
            /\ envMaxRuns \in {m \in MaxRunsValues : k <= m}
    /\ now = 0
    /\ sessionFile = EmptyDoc
    /\ runMu = NoHolder
    /\ runMuStore = EmptyDoc
    /\ sessMu = NoHolder
    /\ sessMuStore = EmptyDoc
    /\ call = [u \in Users |-> IdleCall]
    /\ ret = NoRet
    /\ spawned = [r \in RunIds |-> 0]
    /\ enteredRunning = [r \in RunIds |-> 0]
    /\ sessionWrites = {}
    /\ counters = [cancel |-> 0, delete |-> 0, clear |-> 0, io |-> 0]
    /\ GateInit
    /\ AuxInit

\* DeleteUserData of a user without sessions
PruneDelete == \E u \in Users :
    \/ DeleteBegin(u)
    \/ removeSearchRunsLoad(u)
    \/ \E ok \in BOOLEAN : removeSearchRunsSave(u, ok)

PruneNext ==
    \/ Tick /\ UNCHANGED <<gateVars, auxVars>>
    \/ Start /\ UNCHANGED <<gateVars, auxVars>>
    \/ Cancel /\ UNCHANGED <<gateVars, auxVars>>
    \/ PruneDelete /\ UNCHANGED <<gateVars, auxVars>>

PruneSpec == PruneInit /\ [][PruneNext]_vars

\* a document without expired runs and within the cap
RunsPruned(store, t) ==
    /\ \A r \in DOMAIN store : store[r].expires_at_utc > t
    /\ Cardinality(DOMAIN store) <= searchMaxRuns

\* kept holds the unexpired runs of store, or, above the cap, exactly the
\* searchMaxRuns most recent of them (updated_at descending, then run id
\* ascending)
KeepsMostRecentRuns(store, kept, t) ==
    LET valid == {r \in DOMAIN store : store[r].expires_at_utc > t}
    IN /\ DOMAIN kept \subseteq valid
       /\ \A r \in DOMAIN kept : kept[r] = store[r]
       /\ IF Cardinality(valid) <= searchMaxRuns
          THEN DOMAIN kept = valid
          ELSE /\ Cardinality(DOMAIN kept) = searchMaxRuns
               /\ \A a \in DOMAIN kept, b \in valid \ DOMAIN kept :
                    \/ store[a].updated_at_utc > store[b].updated_at_utc
                    \/ /\ store[a].updated_at_utc = store[b].updated_at_utc
                       /\ a < b

\* a store operation receives its document in this step
RunStoreHanded ==
    /\ runMu = NoHolder /\ runMu' # NoHolder
    /\ RunsPruned(runMuStore', now)
    /\ KeepsMostRecentRuns(runFile, runMuStore', now)

\* the run document is written in this step
RunStoreWritten == runFile' # runFile

\* start writes the document it was handed with its new run added
WrittenByStart(u) ==
    call[u].op = "start" /\ call'[u] # call[u] /\ RunStoreWritten

\* a write of removeSearchRuns, which does not go through withSearchRunStore
WrittenByDelete ==
    \E u \in Users : call[u].op = "delete" /\ call'[u] # call[u] /\ RunStoreWritten

StartKeepsMostRecent ==
    \A u \in Users :
        WrittenByStart(u) =>
            KeepsMostRecentRuns(Put(runMuStore, call[u].run, call[u].rec), runFile', now)

\* C27: the document handed to a store operation and the document saved by
\* a write hold no run with expires_at <= now and at most max_runs runs; above
\* the cap the runs kept are exactly the max_runs most recent by updated_at,
\* ties broken by ascending run id
C27_RunStorePruned ==
    [][/\ (runMu = NoHolder /\ runMu' # NoHolder => RunStoreHanded)
       /\ (RunStoreWritten => RunsPruned(runFile', now))
       /\ StartKeepsMostRecent]_vars

\* the same for the writes that go through withSearchRunStore
PrunedByHelper ==
    [][/\ (runMu = NoHolder /\ runMu' # NoHolder => RunStoreHanded)
       /\ (RunStoreWritten /\ ~WrittenByDelete => RunsPruned(runFile', now))
       /\ StartKeepsMostRecent]_vars

\* a start whose save dropped a run to stay within the cap
CapWasApplied ==
    \E u \in Users :
        /\ ret.tool = "start" /\ ret.ok
        /\ Cardinality(DOMAIN runFile) = envMaxRuns
        /\ envMaxRuns < MaxStarts

(***************************************************************************)
(* The caps of the session store.  The session document outlives the       *)
(* process: the store starts with the sessions earlier runs left on disk,  *)
(* within the caps, and a run of the user is about to save its session     *)
(* (saveSearchSessionRecord); the caps come from the environment.          *)
(***************************************************************************)
MaxPriorSessions == 3

\* the ids of the sessions on disk, below and above the id of the new one
PriorSessionIds == {0} \cup {MaxStarts + k : k \in 1..(MaxPriorSessions - 1)}

\* the age of a session left on disk: expiring at the next step of the
\* clock, or written this very second
PriorSessionTimes == {1 - ClockStep, 0}

MaxSessionsValues == {2, defaultSearchMaxSessions}
MaxSessionsPerUserValues == {1, defaultSearchMaxSessionsPerUser}

PriorSession(s, u, t) == [NewSession(s, u, t) EXCEPT !.session_id = s]

SessionsOfUser(store, u) == {s \in DOMAIN store : store[s].user_id = u}

CapInit ==
    /\ \E ids \in SUBSET PriorSessionIds, m \in MaxSessionsValues,
          p \in MaxSessionsPerUserValues, u \in Users :
       \E owner \in [ids -> Users], at \in [ids -> PriorSessionTimes] :
            /\ sessionFile = [s \in ids |-> PriorSession(s, owner[s], at[s])]
            /\ Cardinality(ids) <= m
            /\ \A o \in Users : Cardinality({s \in ids : owner[s] = o}) <= p
            /\ given = [search_mode |-> Unknown, preferences |-> Unknown,
                        site |-> Unknown, max_sessions |-> m,
                        max_sessions_per_user |-> p]
            /\ runFile = [r \in {1} |-> RunningUpdater(NewRun(1, u, 0), 0)]
            /\ exec = [r \in RunIds |->
                        IF r = 1 THEN [IdleExec EXCEPT !.pc = "q_session", !.user = u]
                        ELSE IdleExec]
    /\ now = 0
    /\ nextRun = 2
    /\ runMu = NoHolder
    /\ runMuStore = EmptyDoc
    /\ sessMu = NoHolder
    /\ sessMuStore = EmptyDoc
    /\ call = [u \in Users |-> IdleCall]
    /\ ret = NoRet
    /\ spawned = [r \in RunIds |-> IF r = 1 THEN 1 ELSE 0]
    /\ enteredRunning = [r \in RunIds |-> IF r = 1 THEN 1 ELSE 0]
    /\ sessionWrites = {}
    /\ envMaxRuns = defaultSearchMaxRuns
    /\ counters = [cancel |-> 0, delete |-> 0, clear |-> 0, io |-> 0]
    /\ GateInit
    /\ seen = [polls |-> 0,
               runs |-> [r \in RunIds |-> [next_cursor |-> 0, events |-> EmptyDoc]]]
    /\ pure = NoCall

CapNext ==
    \/ Tick /\ UNCHANGED <<gateVars, auxVars>>
    \/ (\E r \in RunIds : ExecSessionLock(r)) /\ UNCHANGED <<gateVars, auxVars>>
    \/ (\E r \in RunIds, ok \in BOOLEAN : ExecSessionSave(r, ok))
            /\ UNCHANGED <<gateVars, auxVars>>

CapSpec == CapInit /\ [][CapNext]_vars

\* the executor of run r writes the session document in this step
SessionWrittenBy(r) == r \in sessionWrites' \ sessionWrites

\* the document the write started from, with the new session in it
SessionSource(r) ==
    Put(sessMuStore, SessionIdOf(r), NewSession(r, exec[r].user, exec[r].sessAt))

\* of the sessions in among, none that was dropped is more recent than one
\* that was kept
MostRecentKept(source, kept, among) ==
    \A a \in among \cap DOMAIN kept, b \in among \ DOMAIN kept :
        \/ source[a].updated_at_utc > source[b].updated_at_utc
        \/ /\ source[a].updated_at_utc = source[b].updated_at_utc
           /\ a < b

SessionCapsAfterWrite(r) ==
    LET u == exec[r].user
        source == SessionSource(r)
        live == {s \in DOMAIN source : source[s].expires_at_utc > now}
        others == {s \in live : source[s].user_id # u}
    IN /\ DOMAIN sessionFile' \subseteq DOMAIN source
       /\ \A s \in DOMAIN sessionFile' : sessionFile'[s] = source[s]
       /\ Cardinality(SessionsOfUser(sessionFile', u)) <= searchMaxSessionsPerUser
       /\ MostRecentKept(source, sessionFile', SessionsOfUser(source, u) \cap live)
       /\ Cardinality(DOMAIN sessionFile') <= searchMaxSessions
       /\ \A s \in DOMAIN sessionFile' : sessionFile'[s].expires_at_utc > now
       /\ \A s \in others \ DOMAIN sessionFile' :
            /\ Cardinality(DOMAIN sessionFile') = searchMaxSessions
            /\ MostRecentKept(source, sessionFile', live)

\* C28: after a session write by the executor of a run of user u the store
\* holds at most max_sessions_per_user sessions of u, the most recent by
\* updated_at and then id, at most max_sessions sessions, none expired, and
\* a live session of another user is gone only when the global cap dropped it
C28_SessionCaps ==
    [][\A r \in RunIds : SessionWrittenBy(r) => SessionCapsAfterWrite(r)]_vars

\* a write that dropped an older session of the user and kept the session
\* of another user
C28_Witness ==
    /\ 1 \in sessionWrites
    /\ searchMaxSessionsPerUser = 1
    /\ 0 \notin DOMAIN sessionFile
    /\ 1 \in DOMAIN sessionFile
    /\ \E s \in DOMAIN sessionFile : sessionFile[s].user_id # exec[1].user

(***************************************************************************)
(* The scrape loop of executeSearchQuery (search_query.go:62-114), as a    *)
(* step machine held in `pure`: the scan target is drawn at the start, the *)
(* page a request returns and the number of its jobs not seen before are   *)
(* drawn at each request.                                                  *)
(***************************************************************************)
maxLinkedInStart == 1000

MaxPageJobs == 500
MaxScanTarget == 1200

\* the sizes of a listings page: empty, and pages that step the offset to
\* and over maxLinkedInStart in a few requests
PageSizes == {0, MaxPageJobs - 100, MaxPageJobs}

ScanTargets == {1, 3, MaxScanTarget}

ScrapeEntry(rawScanTarget) ==
    [op |-> "scrape", pc |-> "head", target |-> rawScanTarget, start |-> 0,
     raw |-> 0, sent |-> <<>>, exhausted |-> FALSE, out |-> [kind |-> "running"]]

ScrapeArgs == {ScrapeEntry(t) : t \in ScanTargets}

\* a loop condition without the bound on the offset
scrapeContinuesUncapped(rawJobs, rawScanTarget, start) == rawJobs < rawScanTarget

\* search_query.go:69 the loop condition
scrapeContinues(rawJobs, rawScanTarget, start) ==
    rawJobs < rawScanTarget /\ start <= maxLinkedInStart

\* search_query.go:69-72, 112-114 the head of the loop and its cancel probe
ScrapeHead ==
    /\ pure.op = "scrape"
    /\ pure.pc = "head"
    /\ \E cancelled \in BOOLEAN :
        pure' =
            IF ~scrapeContinues(pure.raw, pure.target, pure.start)
            THEN [pure EXCEPT !.pc = "done",
                              !.exhausted = @ \/ pure.raw < pure.target,
                              !.out = [kind |-> "scraped"]]
            ELSE IF cancelled
                 THEN [pure EXCEPT !.pc = "done",
                                   !.out = [kind |-> "error", text |-> "cancelled"]]
                 ELSE [pure EXCEPT !.pc = "request"]
    /\ FilterUnchanged

\* search_query.go:73-110 one FetchSearchPage and the merge of its page
ScrapeRequest ==
    /\ pure.op = "scrape"
    /\ pure.pc = "request"
    /\ \E failed \in BOOLEAN, size \in PageSizes :
       \E fresh \in {0, Min2(1, size), size} :
        LET request == [start |-> pure.start, size |-> IF failed THEN 0 ELSE size]
            added == Min2(fresh, pure.target - pure.raw)
            asked == [pure EXCEPT !.sent = Append(@, request)]
        IN pure' =
            IF failed
            THEN [asked EXCEPT !.pc = "done",
                               !.out = [kind |-> "error", text |-> "request failed"]]
            ELSE IF size = 0 \/ added = 0
                 THEN [asked EXCEPT !.pc = "done", !.exhausted = TRUE,
                                    !.raw = @ + added,
                                    !.out = [kind |-> "scraped"]]
                 ELSE [asked EXCEPT !.pc = "head", !.raw = @ + added,
                                    !.start = @ + size]
    /\ FilterUnchanged

ScrapeNext == ScrapeHead \/ ScrapeRequest

ScrapeInit ==
    /\ StoreInit /\ GateInit
    /\ seen = [polls |-> 0,
               runs |-> [r \in RunIds |-> [next_cursor |-> 0, events |-> EmptyDoc]]]
    /\ pure \in ScrapeArgs
    /\ given = NothingGiven

ScrapeSpec == ScrapeInit /\ [][ScrapeNext]_vars

\* C29: within one run every listings-page request has start <= 1000, also
\* when the scan target is not reached; the first request has start 0; the
\* starts of successive requests increase strictly, each being the previous
\* start plus the size of the previous, non-empty, page
C29_AscendingStart ==
    pure.op = "scrape" =>
        /\ \A k \in 1..Len(pure.sent) : pure.sent[k].start <= 1000
        /\ (Len(pure.sent) > 0 => pure.sent[1].start = 0)
        /\ \A k \in 1..(Len(pure.sent) - 1) :
            /\ pure.sent[k].size > 0
            /\ pure.sent[k + 1].start = pure.sent[k].start + pure.sent[k].size
            /\ pure.sent[k + 1].start > pure.sent[k].start

\* a scan that asked for the page at 1000 and stopped short of its target
C29_Witness ==
    /\ pure.op = "scrape"
    /\ pure.pc = "done"
    /\ pure.out.kind = "scraped"
    /\ Len(pure.sent) >= 3
    /\ pure.sent[Len(pure.sent)].start = 1000
    /\ pure.sent[Len(pure.sent)].size > 0
    /\ pure.raw < pure.target

(***************************************************************************)
(* Failed writes of the background task.  The runs whose task had a write  *)
(* of the run document or of the session document fail are recorded in     *)
(* `pure`; the callers are start and cancel.                               *)
(***************************************************************************)
\* the task of run r has a write fail in this step (os.WriteFile under
\* updateRun or saveSearchSessionRecord)
ExecWriteFailed(r) ==
    /\ counters'.io = counters.io + 1
    /\ runMu = ExecActor(r) \/ sessMu = ExecActor(r)

IoObserved(A) ==
    /\ A
    /\ pure' = [pure EXCEPT !.failed = @ \cup {r \in RunIds : ExecWriteFailed(r)}]
    /\ UNCHANGED <<gateVars, seen, given>>

IoNext ==
    \/ IoObserved(Tick)
    \/ IoObserved(Start)
    \/ IoObserved(Executor)
    \/ IoObserved(Cancel)

IoInit ==
    /\ StoreInit /\ GateInit
    /\ seen = [polls |-> 0,
               runs |-> [r \in RunIds |-> [next_cursor |-> 0, events |-> EmptyDoc]]]
    /\ pure = [op |-> "io", failed |-> {}]
    /\ given = NothingGiven

IoSpec == IoInit /\ [][IoNext]_vars

\* C30: when a write of the background task fails (a status transition, a
\* progress event, the terminal write or the session), the run ends failed
\* with the error recorded; a run whose task is over is never left in a
\* non-terminal status, and a completed run has its session
C30_StoreErrorsFailRun ==
    \A r \in RunIds :
        exec[r].pc = "done" /\ r \in DOMAIN runFile =>
            /\ searchRunIsTerminal(runFile[r].status)
            /\ (r \in pure.failed =>
                    runFile[r].status = "failed" /\ runFile[r].error # "")
            /\ (runFile[r].status = "completed" =>
                    /\ runFile[r].search_session_id # NoSession
                    /\ r \in sessionWrites)

(***************************************************************************)
(* Ignored jobs and ignored companies in the filter loop                   *)
(* (search_query.go:40-41, 126-143).  A job_url and a company name are     *)
(* sequences of characters; the listed rows of a user are the rows         *)
(* getUserListEntry returns.                                               *)
(***************************************************************************)
MaxIgnoreJobs == 2

AlnumRunes == TokenRunes \ {"+", "#"}

Str(s) == [k \in 1..Len(s) |-> s[k]]

\* part_012:19-34
companyLegalSuffixes ==
    {<<"i", "n", "c">>, <<"c", "o", "r", "p">>,
     <<"c", "o", "r", "p", "o", "r", "a", "t", "i", "o", "n">>, <<"c", "o">>,
     <<"l", "l", "c">>, <<"l", "t", "d">>, <<"l", "p">>, <<"p", "l", "c">>,
     <<"p", "c">>, <<"h", "o", "l", "d", "i", "n", "g", "s">>,
     <<"h", "o", "l", "d", "i", "n", "g">>, <<"g", "r", "o", "u", "p">>,
     <<"t", "e", "c", "h", "n", "o", "l", "o", "g", "i", "e", "s">>,
     <<"t", "e", "c", "h", "n", "o", "l", "o", "g", "y">>}

\* part_012:52-55: the values that stand for no company
NullCompanyWords ==
    {<<"n", "a", "n">>, <<"n", "o", "n", "e">>, <<"n", "u", "l", "l">>,
     <<"n", "a">>, <<"n", "/", "a">>}

\* part_012:36, 57: every rune that is neither a letter, a digit nor white
\* space becomes a space (the text is already lower case)
ReplaceNonAlnum(s) ==
    [k \in 1..Len(s) |-> IF s[k] \in AlnumRunes \cup {Space} THEN s[k] ELSE Space]

\* strings.Fields
RECURSIVE Fields(_, _, _)
Fields(s, cur, out) ==
    IF s = <<>> THEN (IF cur = <<>> THEN out ELSE Append(out, cur))
    ELSE IF Head(s) = Space
         THEN Fields(Tail(s), <<>>, IF cur = <<>> THEN out ELSE Append(out, cur))
         ELSE Fields(Tail(s), Append(cur, Head(s)), out)

\* part_012:59-64: trailing legal suffixes are dropped
RECURSIVE StripLegalSuffixes(_)
StripLegalSuffixes(tokens) ==
    IF tokens # <<>> /\ tokens[Len(tokens)] \in companyLegalSuffixes
    THEN StripLegalSuffixes(SubSeq(tokens, 1, Len(tokens) - 1))
    ELSE tokens

\* strings.Join(tokens, " ")
RECURSIVE JoinSpace(_)
JoinSpace(tokens) ==
    IF tokens = <<>> THEN <<>>
    ELSE IF Len(tokens) = 1 THEN tokens[1]
    ELSE tokens[1] \o <<Space>> \o JoinSpace(Tail(tokens))

\* part_012:46-66
normalizeCompanyName(name) ==
    LET lowered == ToLower(TrimSpace(name))
    IN IF lowered = <<>> \/ lowered \in NullCompanyWords THEN <<>>
       ELSE JoinSpace(StripLegalSuffixes(Fields(ReplaceNonAlnum(lowered), <<>>, <<>>)))

\* the key of search_query.go:126 with the case of the url kept
jobURLKeyCaseSensitive(jobURL) == TrimSpace(jobURL)

\* search_query.go:126
jobURLKey(jobURL) == ToLower(TrimSpace(jobURL))

\* search_session.go:8-22: rows is the set of job_url values of the user's
\* ignored-jobs rows
ignoredJobURLSet(rows) ==
    {ToLower(TrimSpace(u)) : u \in {r \in rows : TrimSpace(r) # <<>>}}

\* search_session.go:24-38: rows is the set of normalized_company values
ignoredCompanySet(rows) ==
    {TrimSpace(c) : c \in {r \in rows : TrimSpace(r) # <<>>}}

\* job urls as the site returns them and as the ignore tools stored them
RawJobURLs == {Str(<<"u", "/", "1">>), Str(<<"U", "/", "1", " ">>), Str(<<"u", "/", "2">>)}

StoredJobURLs == {Str(<<"U", "/", "1">>), Str(<<"u", "/", "2">>)}

RawCompanies ==
    {Str(<<"A", "c", "m", "e", " ", "I", "n", "c">>), Str(<<"a", "c", "m", "e">>),
     Str(<<"B", "-", "C", "o">>), Str(<<"N", "/", "A">>), <<>>}

StoredCompanies == {Str(<<"a", "c", "m", "e">>), Str(<<"b">>)}

NoRawJob == [job_url |-> <<>>, company |-> <<>>]

\* the executor has loaded the two sets (search_query.go:40-41)
IgnoreEntry(jobRows, companyRows) ==
    [op |-> "ignore", pc |-> "loop",
     job_rows |-> jobRows, company_rows |-> companyRows,
     ignored_jobs |-> ignoredJobURLSet(jobRows),
     ignored_companies |-> ignoredCompanySet(companyRows),
     idx |-> 0, raw |-> NoRawJob, fetches |-> 0,
     ignored_jobs_skipped |-> 0, ignored_companies_skipped |-> 0,
     accepted |-> <<>>]

IgnoreArgs ==
    {IgnoreEntry(j, c) : j \in SUBSET StoredJobURLs, c \in SUBSET StoredCompanies}

IgnoreUnchanged == UNCHANGED <<storeVars, gateVars, seen, given>>

\* search_query.go:121-335, one candidate: the two ignore checks come first;
\* whether the rest of the iteration fetches the description and whether it
\* accepts the job is decided by the filter (see FilterTake, FilterEvaluate)
IgnoreCandidate ==
    /\ pure.op = "ignore" /\ pure.pc = "loop" /\ pure.idx < MaxIgnoreJobs
    /\ \E url \in RawJobURLs, company \in RawCompanies, fetch, accept \in BOOLEAN :
        LET raw == [job_url |-> url, company |-> company]
            normalizedCompany == normalizeCompanyName(company)
            e == [pure EXCEPT !.idx = @ + 1, !.raw = raw]
        IN pure' =
            IF jobURLKey(url) \in pure.ignored_jobs
            THEN [e EXCEPT !.ignored_jobs_skipped = @ + 1]
            ELSE IF normalizedCompany # <<>> /\ normalizedCompany \in pure.ignored_companies
            THEN [e EXCEPT !.ignored_companies_skipped = @ + 1]
            ELSE [e EXCEPT !.fetches = IF fetch THEN @ + 1 ELSE @,
                           !.accepted = IF accept THEN Append(@, raw) ELSE @]
    /\ IgnoreUnchanged

\* part_018:766-848, IgnoreJob of another request while the run is scanning:
\* a row is added to the file, the sets the executor loaded stay as they are
IgnoreJobCall ==
    /\ pure.op = "ignore" /\ pure.pc = "loop"
    /\ \E url \in StoredJobURLs :
        /\ url \notin pure.job_rows
        /\ pure' = [pure EXCEPT !.job_rows = @ \cup {url}]
    /\ IgnoreUnchanged

\* part_018:995-1040, IgnoreCompany of another request
IgnoreCompanyCall ==
    /\ pure.op = "ignore" /\ pure.pc = "loop"
    /\ \E name \in RawCompanies :
        /\ normalizeCompanyName(name) # <<>>
        /\ normalizeCompanyName(name) \notin pure.company_rows
        /\ pure' = [pure EXCEPT !.company_rows = @ \cup {normalizeCompanyName(name)}]
    /\ IgnoreUnchanged

\* the raw list is at its end
IgnoreFinish ==
    /\ pure.op = "ignore" /\ pure.pc = "loop"
    /\ pure' = [pure EXCEPT !.pc = "done"]
    /\ IgnoreUnchanged

IgnoreNext == IgnoreCandidate \/ IgnoreJobCall \/ IgnoreCompanyCall \/ IgnoreFinish

IgnoreInit ==
    /\ StoreInit /\ GateInit
    /\ seen = [polls |-> 0,
               runs |-> [r \in RunIds |-> [next_cursor |-> 0, events |-> EmptyDoc]]]
    /\ pure \in IgnoreArgs
    /\ given = NothingGiven

IgnoreSpec == IgnoreInit /\ [][IgnoreNext]_vars

\* the sets as the claim states them: the lowercased trimmed urls and the
\* normalized names the executor loaded
LoadedIgnoredJobs == pure.ignored_jobs

LoadedIgnoredCompanies == pure.ignored_companies

IsIgnoredJob(raw) == ToLower(TrimSpace(raw.job_url)) \in LoadedIgnoredJobs

IsIgnoredCompany(raw) == normalizeCompanyName(raw.company) \in LoadedIgnoredCompanies

NoIgnoredAccepted ==
    \A k \in 1..Len(pure.accepted) :
        /\ ~IsIgnoredJob(pure.accepted[k])
        /\ ~IsIgnoredCompany(pure.accepted[k])

CandidateStep == pure.op = "ignore" /\ pure'.idx = pure.idx + 1

SkipCounted ==
    CandidateStep /\ (IsIgnoredJob(pure'.raw) \/ IsIgnoredCompany(pure'.raw)) =>
        /\ pure'.ignored_jobs_skipped + pure'.ignored_companies_skipped
            = pure.ignored_jobs_skipped + pure.ignored_companies_skipped + 1
        /\ pure'.ignored_jobs_skipped >= pure.ignored_jobs_skipped
        /\ pure'.ignored_companies_skipped >= pure.ignored_companies_skipped
        /\ pure'.fetches = pure.fetches
        /\ pure'.accepted = pure.accepted

\* C31: no accepted job has a lowercased trimmed job_url in the ignored-jobs
\* set or a normalized company name in the ignored-companies set the executor
\* loaded; every skipped job adds one to ignored_jobs_skipped or to
\* ignored_companies_skipped and causes no detail fetch
C31_IgnoredNeverAccepted ==
    /\ [](pure.op = "ignore" => NoIgnoredAccepted)
    /\ [][SkipCounted]_vars

\* a job of an ignored company spelled differently was skipped, another job
\* was accepted, and a url stored in upper case was skipped
C31_Witness ==
    /\ pure.op = "ignore"
    /\ pure.pc = "done"
    /\ pure.ignored_companies_skipped = 1
    /\ pure.raw.company = Str(<<"A", "c", "m", "e", " ", "I", "n", "c">>)
    /\ Len(pure.accepted) = 1
    /\ pure.fetches = 1

\* the score as the claim states it, in hundredths
ConfidenceFormula(desiredCount, totalCount, positive, negative, desiredMention) ==
    LET sum == (IF desiredCount > 0 THEN 65 ELSE 0)
               + (IF desiredCount > 0 THEN Min2(20, 2 * desiredCount) ELSE 0)
               + (IF positive THEN 10 ELSE 0)
               + (IF desiredMention THEN 20 ELSE 0)
               - (IF negative THEN 60 ELSE 0)
               + (IF desiredCount = 0 /\ totalCount > 0 THEN 5 ELSE 0)
    IN IF sum < 0 THEN 0 ELSE IF sum > 100 THEN 100 ELSE sum

ConfidenceComputed == pure.op = "confidence" /\ pure.pc = "done"

ScoreAsStated ==
    ConfidenceComputed =>
        /\ pure.out.confidence_score
            = ConfidenceFormula(pure.desired_count, pure.total_count, pure.positive,
                                pure.negative, pure.desired_mention)
        /\ pure.out.confidence_score \in 0..100

StrongIsConfident ==
    pure.op = "filter" /\ pure.visa_filtering =>
        \A k \in 1..Len(pure.accepted) :
            /\ pure.accepted[k].confidence_score \in 0..100
            /\ pure.accepted[k].visa_match_strength = "strong"
                => pure.accepted[k].confidence_score >= 85

\* C32: confidence_score, in hundredths, is clamp(65*[desired_count>0]
\* + min(20, 2*desired_count)*[desired_count>0] + 10*[positive]
\* + 20*[desired_mention] - 60*[negative]
\* + 5*[desired_count=0 and total_count>0], 0, 100) and lies in [0,1]; every
\* accepted job of a visa-filtered run whose visa_match_strength is strong has
\* a confidence_score of at least 0.85
C32_ConfidenceScore == ScoreAsStated /\ StrongIsConfident

\* a visa-filtered run accepted a strong match on a company with one
\* sponsored visa of a requested type: its description was fetched because a
\* description signal is required, and is positive and mentions the type
C32_Witness ==
    /\ pure.op = "filter" /\ pure.visa_filtering /\ pure.pc = "done"
    /\ \E k \in 1..Len(pure.accepted) :
        /\ pure.accepted[k].visa_match_strength = "strong"
        /\ pure.accepted[k].confidence_score = 97

\* a call whose sum is below zero, and a call whose count term is capped
C32_ClampedCalls ==
    ConfidenceComputed /\ pure.desired_count = 11 /\ pure.desired_mention /\ pure.positive
        /\ ~pure.negative /\ pure.out.confidence_score = 100

(***************************************************************************)
(* The sponsor dataset index (part_013:137-222).  A raw row is the company *)
(* name and the five visa counts as the CSV file holds them, as text.      *)
(***************************************************************************)
MaxDatasetRows == 3

\* part_013:84-90
parseIntCSV(text) == Atoi(TrimSpace(text)).val

DatasetNames ==
    {Str(<<"A", "c", "m", "e", " ", "I", "n", "c">>), Str(<<" ", "a", "c", "m", "e">>),
     Str(<<"B", "-", "C", "o">>), Str(<<"N", "/", "A">>)}

CountTexts == {Str(<<"2">>), Str(<<"x">>), Str(<<"-", "1">>)}

RawRow(name, h1b, greenCard) ==
    [company_name |-> name, h1b |-> h1b, h1b1_chile |-> <<"0">>,
     h1b1_singapore |-> <<>>, e3_australian |-> <<"0">>, green_card |-> greenCard]

RawRows ==
    {RawRow(n, h, g) : n \in DatasetNames, h \in CountTexts, g \in {Str(<<"0">>), Str(<<" ", "1">>)}}

\* part_013:194-205
DatasetRecord(row) ==
    LET counts == [h1b |-> parseIntCSV(row.h1b),
                   h1b1_chile |-> parseIntCSV(row.h1b1_chile),
                   h1b1_singapore |-> parseIntCSV(row.h1b1_singapore),
                   e3_australian |-> parseIntCSV(row.e3_australian),
                   green_card |-> parseIntCSV(row.green_card)]
    IN [company_name |-> TrimSpace(row.company_name),
        counts |-> counts,
        total_visas |-> counts.h1b + counts.h1b1_chile + counts.h1b1_singapore
                        + counts.e3_australian + counts.green_card]

\* a variant of the test of part_013:208 in which the later row wins
replacesExistingAlways(exists, recordTotal, existingTotal) == TRUE

\* part_013:207-208
replacesExisting(exists, recordTotal, existingTotal) ==
    ~exists \/ recordTotal > existingTotal

DatasetEntry(rows) ==
    [op |-> "dataset", pc |-> "read", file |-> rows, idx |-> 0,
     ByNormalizedCompany |-> <<>>, Rows |-> 0]

DatasetArgs ==
    {DatasetEntry(rows) : rows \in UNION {[1..n -> RawRows] : n \in 0..MaxDatasetRows}}

\* part_013:186-211 one row of the file
DatasetRow ==
    /\ pure.op = "dataset" /\ pure.pc = "read" /\ pure.idx < Len(pure.file)
    /\ LET row == pure.file[pure.idx + 1]
           normalized == normalizeCompanyName(TrimSpace(row.company_name))
           record == DatasetRecord(row)
           index == pure.ByNormalizedCompany
           exists == normalized \in DOMAIN index
           existingTotal == IF exists THEN index[normalized].total_visas ELSE 0
       IN pure' =
            IF normalized = <<>> THEN [pure EXCEPT !.idx = @ + 1]
            ELSE [pure EXCEPT
                    !.idx = @ + 1,
                    !.Rows = @ + 1,
                    !.ByNormalizedCompany =
                        IF replacesExisting(exists, record.total_visas, existingTotal)
                        THEN [k \in DOMAIN index \cup {normalized} |->
                                IF k = normalized THEN record ELSE index[k]]
                        ELSE index]
    /\ IgnoreUnchanged

\* part_013:187-190, 213-221 the end of the file
DatasetDone ==
    /\ pure.op = "dataset" /\ pure.pc = "read" /\ pure.idx = Len(pure.file)
    /\ pure' = [pure EXCEPT !.pc = "done"]
    /\ IgnoreUnchanged

DatasetNext == DatasetRow \/ DatasetDone

DatasetInit ==
    /\ StoreInit /\ GateInit
    /\ seen = [polls |-> 0,
               runs |-> [r \in RunIds |-> [next_cursor |-> 0, events |-> EmptyDoc]]]
    /\ pure \in DatasetArgs
    /\ given = NothingGiven

DatasetSpec == DatasetInit /\ [][DatasetNext]_vars

\* the total of a raw row: the sum of its five counts, a count that is not
\* a number being zero
RowTotal(row) ==
    LET n(text) == IF Atoi(TrimSpace(text)).err THEN 0 ELSE Atoi(TrimSpace(text)).val
    IN n(row.h1b) + n(row.h1b1_chile) + n(row.h1b1_singapore)
       + n(row.e3_australian) + n(row.green_card)

RowsOfKey(key) ==
    {k \in 1..Len(pure.file) : normalizeCompanyName(pure.file[k].company_name) = key}

rawScanTarget(query) ==
    LET product == WrapInt(requiredAccepted(query) * query.scan_multiplier)
        target == IF product < requiredAccepted(query) THEN requiredAccepted(query)
                  ELSE product
    IN IF target > query.max_scan_results THEN query.max_scan_results ELSE target

\* the queries of part_008:38-80: results_wanted, max_returned and
\* scan_multiplier at least 1, offset at least 0, max_scan_results at least
\* results_wanted
ScanQueries ==
    {[results_wanted |-> w, offset |-> o, max_returned |-> 1, scan_multiplier |-> m,
      max_scan_results |-> x] :
        w \in 1..2, o \in 0..1, m \in {1, 2, (MaxInt + 1) \div 2},
        x \in {2, defaultSearchMaxScanResults}}

PageURLs ==
    {Str(<<"u", "/", "1">>), Str(<<"U", "/", "1", " ">>), Str(<<"u", "/", "2">>),
     Str(<<"u", "/", "3">>), Str(<<" ">>)}

MaxPageURLs == 2

Pages == UNION {[1..n -> PageURLs] : n \in 0..MaxPageURLs}

\* search_query.go:86-101 the jobs of one page are added in order
RECURSIVE addPage(_, _, _)
addPage(scan, page, added) ==
    IF page = <<>> THEN [scan |-> scan, added |-> added]
    ELSE LET key == jobURLKey(Head(page))
         IN IF key = <<>> \/ key \in scan.seenURLs
            THEN addPage(scan, Tail(page), added)
            ELSE LET more == [scan EXCEPT !.seenURLs = @ \cup {key},
                                          !.rawJobs = Append(@, Head(page))]
                 IN IF Len(more.rawJobs) >= scan.target
                    THEN [scan |-> more, added |-> added + 1]
                    ELSE addPage(more, Tail(page), added + 1)

UrlScanEntry(query) ==
    [op |-> "urlscan", pc |-> "head", query |-> query,
     target |-> rawScanTarget(query), rawJobs |-> <<>>, seenURLs |-> {},
     start |-> 0, scanExhausted |-> FALSE, requests |-> 0, last |-> "none"]

UrlScanArgs == {UrlScanEntry(q) : q \in ScanQueries}

\* search_query.go:69, 111-113 the loop condition and the lines after the loop
UrlScanHead ==
    /\ pure.op = "urlscan" /\ pure.pc = "head"
    /\ pure' =
        IF Len(pure.rawJobs) < pure.target /\ pure.start <= maxLinkedInStart
        THEN [pure EXCEPT !.pc = "request"]
        ELSE [pure EXCEPT !.pc = "done",
                          !.scanExhausted = @ \/ Len(pure.rawJobs) < pure.target]
    /\ IgnoreUnchanged

\* search_query.go:70-109 one page request and what the loop does with it
UrlScanRequest ==
    /\ pure.op = "urlscan" /\ pure.pc = "request"
    /\ \E outcome \in {"page", "error", "cancelled"}, page \in Pages :
        LET r == addPage(pure, page, 0)
            counted == [r.scan EXCEPT !.requests = @ + 1]
        IN pure' =
            IF outcome # "page" THEN [pure EXCEPT !.pc = "error", !.last = outcome]
            ELSE IF Len(page) = 0
            THEN [counted EXCEPT !.pc = "done", !.scanExhausted = TRUE, !.last = "empty"]
            ELSE IF r.added = 0
            THEN [counted EXCEPT !.pc = "done", !.scanExhausted = TRUE, !.last = "stale"]
            ELSE [counted EXCEPT !.pc = "head", !.start = @ + Len(page), !.last = "added"]
    /\ IgnoreUnchanged

UrlScanNext == UrlScanHead \/ UrlScanRequest

UrlScanInit ==
    /\ StoreInit /\ GateInit
    /\ seen = [polls |-> 0,
               runs |-> [r \in RunIds |-> [next_cursor |-> 0, events |-> EmptyDoc]]]
    /\ pure \in UrlScanArgs
    /\ given = NothingGiven

UrlScanSpec == UrlScanInit /\ [][UrlScanNext]_vars

\* the target as the statement gives it, in exact arithmetic
StatedScanTarget(query) ==
    Min2(Max2(query.results_wanted, query.offset + query.max_returned)
            * query.scan_multiplier,
         query.max_scan_results)

NoDuplicateURL ==
    \A i, j \in 1..Len(pure.rawJobs) :
        i # j => ToLower(TrimSpace(pure.rawJobs[i])) # ToLower(TrimSpace(pure.rawJobs[j]))

NoEmptyURL == \A i \in 1..Len(pure.rawJobs) : TrimSpace(pure.rawJobs[i]) # <<>>

\* an empty page or a page without a new job is the last request of the loop
StopsOnNoProgress ==
    pure.op = "urlscan" /\ pure.last \in {"empty", "stale"} =>
        /\ pure.pc = "done"
        /\ pure.scanExhausted

ExhaustedIffShort(target) ==
    pure.op = "urlscan" /\ pure.pc = "done" =>
        (pure.scanExhausted <=> Len(pure.rawJobs) < target)

\* C34: the raw job list never holds two jobs with the same lowercased
\* trimmed job_url, never a job with an empty job_url, and never more than
\* raw_scan_target = min(max(results_wanted, offset + max_returned)
\* * scan_multiplier, max_scan_results) jobs; the loop stops on an empty page
\* and on a page that adds no new job; when it is over scan_exhausted is true
\* exactly when fewer than raw_scan_target jobs were collected
C34_ScrapeLoop ==
    pure.op = "urlscan" =>
        /\ NoDuplicateURL
        /\ NoEmptyURL
        /\ Len(pure.rawJobs) <= StatedScanTarget(pure.query)
        /\ StopsOnNoProgress
        /\ ExhaustedIffShort(StatedScanTarget(pure.query))

\* the same with the target the loop computed
C34_LoopWithComputedTarget ==
    pure.op = "urlscan" =>
        /\ NoDuplicateURL
        /\ NoEmptyURL
        /\ Len(pure.rawJobs) <= pure.target
        /\ Len(pure.rawJobs) <= StatedScanTarget(pure.query)
        /\ StopsOnNoProgress
        /\ ExhaustedIffShort(pure.target)

\* a scan that reached a target of 2 with a page whose first two urls differ
\* in case and padding only
C34_ComputedWitness ==
    /\ pure.op = "urlscan" /\ pure.pc = "done"
    /\ ~pure.scanExhausted
    /\ pure.target = 2
    /\ pure.requests = 2
    /\ Len(pure.rawJobs) = 2

\* required_accepted as the statement gives it, in exact arithmetic
StatedRequiredAccepted(query) ==
    Max2(query.results_wanted, query.offset + query.max_returned)

\* the accepted jobs are candidates of the scrape sequence, each taken once,
\* in the order of the sequence
AcceptedInScrapeOrder ==
    /\ \A k \in 1..Len(pure.accepted) : pure.accepted[k].raw_index \in 1..pure.idx
    /\ \A i, j \in 1..Len(pure.accepted) :
        i < j => pure.accepted[i].raw_index < pure.accepted[j].raw_index

SessionHoldsAccepted ==
    pure.pc = "done" => pure.out.jobs = pure.accepted

AcceptedWithinRequired ==
    Len(pure.accepted) <= StatedRequiredAccepted(pure.query)

\* once the required number is accepted no candidate is taken, fetched or
\* evaluated
NoWorkAfterRequired ==
    FilterStep /\ Len(pure.accepted) >= StatedRequiredAccepted(pure.query) =>
        /\ pure'.idx = pure.idx
        /\ pure'.fetches = pure.fetches
        /\ pure'.skipped = pure.skipped
        /\ pure'.accepted = pure.accepted
        /\ pure'.pc \notin {"fetch", "eval"}

\* C35: the accepted jobs of a Session are a subsequence, in scrape order, of
\* the de-duplicated scrape sequence; their number never exceeds
\* required_accepted = max(results_wanted, offset + max_returned); no
\* candidate after the one that reached required_accepted is evaluated or
\* detail-fetched
C35_AcceptedInOrder ==
    /\ [](pure.op = "filter" =>
            AcceptedInScrapeOrder /\ SessionHoldsAccepted /\ AcceptedWithinRequired)
    /\ [][NoWorkAfterRequired]_vars

\* the first candidate is rejected, the second and the third are accepted,
\* the third fills a request for two jobs and the loop ends there
C35_Witness ==
    /\ pure.op = "filter" /\ pure.pc = "done"
    /\ StatedRequiredAccepted(pure.query) = 2
    /\ Len(pure.out.jobs) = 2
    /\ pure.out.jobs[1].raw_index = 2
    /\ pure.out.jobs[2].raw_index = 3

(***************************************************************************)
(* Progress of the background task.  The run document holds the runs that  *)
(* earlier starts left on disk; a start creates a run and spawns its task. *)
(* The goroutine of a task and the handler of a call keep being scheduled, *)
(* which is the weak fairness of their steps.                              *)
(***************************************************************************)
\* a step of the task of run r: at most MaxActive = 1 task is working at a
\* time, so a step of Executor taken while the task of r works is its step
ExecutorOf(r) == exec[r].pc \notin {"none", "done"} /\ Executor

\* the second half of a start call
StartReturn(u) == Start /\ call[u].op = "start" /\ call'[u].op = "idle"

LiveNext ==
    \/ Tick /\ UNCHANGED <<gateVars, auxVars>>
    \/ Start /\ UNCHANGED <<gateVars, auxVars>>
    \/ Executor /\ UNCHANGED <<gateVars, auxVars>>

LiveFairness ==
    /\ \A r \in RunIds : WF_vars(ExecutorOf(r) /\ UNCHANGED <<gateVars, auxVars>>)
    /\ \A u \in Users : WF_vars(StartReturn(u) /\ UNCHANGED <<gateVars, auxVars>>)

LiveSpec == PruneInit /\ [][LiveNext]_vars /\ LiveFairness

\* start returned the run id of r and spawned its task
StartedOk(r) == spawned[r] > 0

ExecutorWorking(r) == exec[r].pc \notin {"none", "done"}

RunTerminal(r) == r \in DOMAIN runFile /\ searchRunIsTerminal(runFile[r].status)

\* every write to the run document succeeded so far
WritesSucceed == counters.io = 0

\* the run of a working task is in the document until it is terminal
RetrievableUntilTerminal ==
    \A r \in RunIds :
        StartedOk(r) /\ ExecutorWorking(r) /\ WritesSucceed => r \in DOMAIN RunStoreRead

\* no step removes a non-terminal run whose task is working
NonTerminalKept ==
    \A r \in RunIds :
        /\ r \in DOMAIN runFile
        /\ ~searchRunIsTerminal(runFile[r].status)
        /\ ExecutorWorking(r)
        => r \in DOMAIN runFile'

EventuallyTerminal ==
    \A r \in RunIds : (StartedOk(r) /\ WritesSucceed) ~> (RunTerminal(r) \/ ~WritesSucceed)

\* C36: every run a successful start created reaches a terminal status, as
\* long as the site calls return and the store writes succeed, and its owner
\* can retrieve it until then; no step removes a non-terminal run whose task
\* is still working, be it for its age or for the cap on the number of runs
C36_RunsReachTerminal ==
    /\ EventuallyTerminal
    /\ []RetrievableUntilTerminal
    /\ [][NonTerminalKept]_vars

\* the part that is about progress alone
C36_EventuallyTerminal == EventuallyTerminal

\* the part that is about pruning alone
C36_NonTerminalKept == [][NonTerminalKept]_vars

\* with the clock within the lifetime of the run and the cap out of reach,
\* the run of a working task stays in the document
KeptWithinLimits ==
    now = 0 /\ envMaxRuns = defaultSearchMaxRuns => RetrievableUntilTerminal

\* a task ended with its run completed
C36_CompletedReached ==
    \E r \in RunIds : exec[r].pc = "done" /\ spawned[r] > 0 /\ RunTerminal(r)
                        /\ runFile[r].status = "completed"

\* within those limits every started run reaches a terminal status
TerminalWithinLimits ==
    \A r \in RunIds :
        (StartedOk(r) /\ WritesSucceed /\ envMaxRuns = defaultSearchMaxRuns)
            ~> (RunTerminal(r) \/ ~WritesSucceed \/ now > 0)

(***************************************************************************)
(* The session a completed run refers to.  The documents outlive the       *)
(* process: the store starts with a completed run of an earlier search and *)
(* the session that run saved, both written in the same second, next to    *)
(* other sessions left on disk; a second run is about to save its session  *)
(* (saveSearchSessionRecord) and complete, and the clients ask for the     *)
(* results of both runs.                                                   *)
(***************************************************************************)
\* the completed run r of an earlier search that saved session s at time t
PriorCompletedRun(r, u, t, s) ==
    [CompletedUpdater(RunningUpdater(NewRun(r, u, t), t), t, s) EXCEPT
        !.updated_at_utc = t]

RefInit ==
    /\ \E ids \in SUBSET PriorSessionIds, m \in MaxSessionsValues,
          p \in MaxSessionsPerUserValues, u \in Users, o \in Users :
       \E owner \in [ids -> Users], at \in [ids -> PriorSessionTimes], s \in ids :
            /\ owner[s] = o
            /\ sessionFile = [x \in ids |-> PriorSession(x, owner[x], at[x])]
            /\ Cardinality(ids) <= m
            /\ \A x \in Users : Cardinality({y \in ids : owner[y] = x}) <= p
            /\ given = [search_mode |-> Unknown, preferences |-> Unknown,
                        site |-> Unknown, max_sessions |-> m,
                        max_sessions_per_user |-> p]
            /\ runFile = [r \in RunIds |->
                            IF r = 1 THEN RunningUpdater(NewRun(1, u, 0), 0)
                            ELSE PriorCompletedRun(r, o, at[s], s)]
            /\ exec = [r \in RunIds |->
                        IF r = 1 THEN [IdleExec EXCEPT !.pc = "q_session", !.user = u]
                        ELSE DoneExec]
    /\ now = 0
    /\ nextRun = MaxStarts + 1
    /\ runMu = NoHolder
    /\ runMuStore = EmptyDoc
    /\ sessMu = NoHolder
    /\ sessMuStore = EmptyDoc
    /\ call = [u \in Users |-> IdleCall]
    /\ ret = NoRet
    /\ spawned = [r \in RunIds |-> 1]
    /\ enteredRunning = [r \in RunIds |-> 1]
    /\ sessionWrites = {}
    /\ envMaxRuns = defaultSearchMaxRuns
    /\ counters = [cancel |-> 0, delete |-> 0, clear |-> 0, io |-> 0]
    /\ GateInit
    /\ seen = [polls |-> 0,
               runs |-> [r \in RunIds |-> [next_cursor |-> 0, events |-> EmptyDoc]]]
    /\ pure = NoCall

\* the tail of executeSearchRun: session, 'completed' event, final update
RefExecutor == \E r \in RunIds :
    \/ ExecSessionLock(r)
    \/ \E ok \in BOOLEAN : ExecSessionSave(r, ok)
    \/ ExecLock(r)
    \/ \E ok \in BOOLEAN : ExecProgress(r, ok, TRUE)
    \/ \E ok \in BOOLEAN : ExecFinishCompleted(r, ok)

\* get_job_search_results of either run, with the default or another window
RefResults ==
    \/ \E u \in Users, r \in RunIds, reslice \in BOOLEAN : ResultsLoadRun(u, r, reslice)
    \/ \E u \in Users : ResultsLoadSession(u)

RefNext ==
    \/ Tick /\ UNCHANGED <<gateVars, auxVars>>
    \/ RefExecutor /\ UNCHANGED <<gateVars, auxVars>>
    \/ RefResults

RefSpec == RefInit /\ [][RefNext]_vars

\* the completed runs a reader finds in the run document
CompletedRuns == {r \in DOMAIN RunStoreRead : RunStoreRead[r].status = "completed"}

\* the session of run r is in the session document and belongs to its user
SessionOfRunPresent(r) ==
    LET run == RunStoreRead[r]
    IN /\ run.search_session_id \in DOMAIN SessionStoreRead
       /\ SessionStoreRead[run.search_session_id].user_id = run.user_id

\* a results call with another window failed on the session of a run whose
\* default window is still served
ResliceFailedOnSession ==
    /\ ret.tool = "results" /\ ~ret.ok
    /\ ret.err \in {"unknown session_id", "session_id does not belong to this user_id"}
    /\ ret.run_id \in CompletedRuns
    /\ RunStoreRead[ret.run_id].user_id = ret.user

\* C37: every completed run in the run store names a session that is in the
\* session store and belongs to the same user, from the moment the run
\* becomes completed (also right after the caps were enforced on the write
\* of that session) until the run expires, so that results with any other
\* window succeeds whenever results with the default window does (no call
\* clears a session here)
C37_NoDanglingSession ==
    /\ \A r \in CompletedRuns : SessionOfRunPresent(r)
    /\ ~ResliceFailedOnSession

\* the caps of the environment are out of reach of the sessions on disk
CapsOutOfReach ==
    /\ given.max_sessions = defaultSearchMaxSessions
    /\ given.max_sessions_per_user = defaultSearchMaxSessionsPerUser

\* with the caps out of reach the session of every completed run is there
RefWithinCaps == CapsOutOfReach => C37_NoDanglingSession

\* the run that has just completed names a session its own write dropped
OwnSessionDropped ==
    /\ 1 \in CompletedRuns
    /\ RunStoreRead[1].search_session_id \notin DOMAIN SessionStoreRead

\* the session of the earlier run was dropped by the write of the later one
EarlierSessionDropped ==
    /\ 1 \in sessionWrites
    /\ \E r \in CompletedRuns \ {1} :
          RunStoreRead[r].search_session_id \notin DOMAIN SessionStoreRead

\* both runs are completed and both sessions are there
BothSessionsPresent ==
    /\ CompletedRuns = RunIds
    /\ \A r \in CompletedRuns : SessionOfRunPresent(r)

(***************************************************************************)
(* The locks together.  A request goes through withRequestLock, and the    *)
(* handler it runs (start, cancel) takes the run-store mutex inside; the   *)
(* background task of a started run takes the store mutexes without the    *)
(* invocation mutex.  The phase of the handler is kept in the field body   *)
(* of the request: store (about to call withSearchRunStore), locked        *)
(* (inside it), handled (returned from it), invalid (failed validation).    *)
(***************************************************************************)
LockInputs == {[has_user_id |-> TRUE, user_id |-> s] : s \in {<<"a">>, <<"b">>}}

LockTools == {"start", "cancel"}

\* the runs started here
MaxLockRuns == 1

UserOf(uid) == IF uid = <<"a">> THEN "u1" ELSE "u2"

BodyOf(i) == IF "body" \in DOMAIN req[i] THEN req[i].body ELSE "none"

WithBody(rq, b) ==
    [f \in DOMAIN rq \cup {"body"} |-> IF f = "body" THEN b ELSE rq[f]]

\* the bounds of the model leave room for the store call of request i
StoreFeasible(i) ==
    LET others == {j \in Requests \ {i} : req[j].tool = req[i].tool
                                            /\ BodyOf(j) \in {"store", "locked"}}
    IN /\ others = {}
       /\ IF req[i].tool = "start"
          THEN nextRun <= MaxLockRuns /\ ActiveRuns = {}
          ELSE EnvBudget

\* the handler up to its store call: input validation
HandlerValidate(i) ==
    /\ req[i].pc = "handler" /\ BodyOf(i) = "none"
    /\ \E b \in {"store", "invalid"} :
          /\ b = "store" => StoreFeasible(i)
          /\ req' = [req EXCEPT ![i] = WithBody(@, b)]
    /\ UNCHANGED <<userToolLocks, mutexHolder, task, storeVars, auxVars>>

\* withSearchRunStore of the handler: Lock, load
HandlerStore(i) ==
    /\ BodyOf(i) = "store"
    /\ LET u == UserOf(req[i].uid)
       IN \/ req[i].tool = "start" /\ StartLock(u)
          \/ req[i].tool = "cancel" /\ \E r \in RunIds : CancelLock(u, r)
    /\ req' = [req EXCEPT ![i] = WithBody(@, "locked")]
    /\ UNCHANGED <<userToolLocks, mutexHolder, task, auxVars>>

\* withSearchRunStore of the handler: fn, save, the deferred Unlock
HandlerSave(i) ==
    /\ BodyOf(i) = "locked"
    /\ LET u == UserOf(req[i].uid)
       IN \E ok \in BOOLEAN :
            \/ req[i].tool = "start" /\ StartSave(u, ok)
            \/ req[i].tool = "cancel" /\ CancelSave(u, ok)
    /\ req' = [req EXCEPT ![i] = WithBody(@, "handled")]
    /\ UNCHANGED <<userToolLocks, mutexHolder, task, auxVars>>

\* fn() of withRequestLock returns, with an error when validation failed
LockReturn(i) ==
    /\ BodyOf(i) \in {"handled", "invalid"}
    /\ GateReturn(i, BodyOf(i) = "invalid")

\* the requests are numbered in the order they arrive: a start of the first
\* user, then cancels of either user
LockEnter(i, input, tool) ==
    /\ \A j \in Requests : j < i => req[j].pc # "idle"
    /\ IF i = 1 THEN tool = "start" /\ input.user_id = <<"a">> ELSE tool = "cancel"
    /\ GateEnter(i, input, tool)

LockNext ==
    \/ \E i \in Requests, input \in LockInputs, tool \in LockTools :
          LockEnter(i, input, tool)
    \/ \E i \in Requests : GateLoad(i)
    \/ \E i \in Requests : GateLoadOrStore(i)
    \/ \E i \in Requests : GateLock(i)
    \/ \E i \in Requests : HandlerValidate(i)
    \/ \E i \in Requests : HandlerStore(i)
    \/ \E i \in Requests : HandlerSave(i)
    \/ \E i \in Requests : LockReturn(i)
    \/ Executor /\ UNCHANGED <<gateVars, auxVars>>

LockSpec == Init /\ [][LockNext]_vars

\* the actors: the requests inside withRequestLock and the working tasks
ActiveRequests == {i \in Requests : req[i].pc \in {"load", "store", "lock", "handler"}}

WorkingTasks == {r \in RunIds : exec[r].pc \notin {"none", "done"}}

\* the store mutexes an actor holds
HeldByRequest(i) ==
    {m \in {"run"} : req[i].pc = "handler" /\ runMu = CallActor(UserOf(req[i].uid))}

HeldByTask(r) ==
    {m \in {"run"} : runMu = ExecActor(r)} \cup {m \in {"session"} : sessMu = ExecActor(r)}

\* request i waits for a mutex another actor holds
RequestBlocked(i) ==
    \/ req[i].pc = "lock" /\ mutexHolder[req[i].lock] # Unlocked
    \/ BodyOf(i) = "store" /\ runMu # NoHolder

\* task r waits for a mutex another actor holds: the session-store mutex at
\* saveSearchSessionRecord, the run-store mutex at every other step
TaskBlocked(r) ==
    IF exec[r].pc \in {"q_session", "q_session_save"}
    THEN sessMu \notin {NoHolder, ExecActor(r)}
    ELSE runMu \notin {NoHolder, ExecActor(r)}

\* the steps of a task that call the site client or sleep on a throttle
SitePcs == {"q_fetch", "q_sleep", "q_desc_sleep", "q_desc_fetch"}

AtMostOneStoreMutex ==
    /\ \A i \in Requests : Cardinality(HeldByRequest(i)) <= 1
    /\ \A r \in RunIds : Cardinality(HeldByTask(r)) <= 1

\* a request holds a store mutex only inside its invocation mutex
InvocationMutexFirst ==
    \A i \in Requests :
        BodyOf(i) \in {"store", "locked"} => mutexHolder[req[i].lock] = Holder(i)

NoMutexAcrossSiteCalls ==
    \A r \in RunIds : exec[r].pc \in SitePcs => HeldByTask(r) = {}

\* an actor that holds a store mutex waits for nothing
HoldersNotBlocked ==
    /\ \A i \in Requests : HeldByRequest(i) # {} => ~RequestBlocked(i)
    /\ \A r \in RunIds : HeldByTask(r) # {} => ~TaskBlocked(r)

SomeActorNotBlocked ==
    (ActiveRequests \cup WorkingTasks) # {}
        => \/ \E i \in ActiveRequests : ~RequestBlocked(i)
           \/ \E r \in WorkingTasks : ~TaskBlocked(r)

LastEvent(run) == run.events[Len(run.events)]

\* no write failed and no delete_user_data call was made
WritesAndStoreIntact == counters.io = 0 /\ counters.delete = 0

\* the runs a reader finds: a terminal run ends its log with the event of its status, at 100
LastEventIsStatus ==
    \A r \in DOMAIN RunStoreRead :
        searchRunIsTerminal(runFile[r].status)
            => /\ runFile[r].events # <<>>
               /\ LastEvent(runFile[r]).phase = runFile[r].status
               /\ LastEvent(runFile[r]).progress_percent = 100

\* a run whose task has finished and whose log has a 'completed' event is
\* completed
CompletedEventOnlyInCompleted ==
    \A r \in DOMAIN RunStoreRead :
        (exec[r].pc = "done" /\ HasEvent(runFile[r], "completed"))
            => runFile[r].status = "completed"

\* no step adds an event to a terminal run
NoEventAfterTerminal ==
    \A r \in RunIds :
        (Kept(r) /\ searchRunIsTerminal(runFile[r].status))
            => runFile'[r].events = runFile[r].events

\* C39: the event log agrees with the terminal status: whenever a run is
\* terminal its last event has the phase of its status (completed, failed,
\* cancelled) and progress 100, no event is appended after it, and a
\* 'completed' event exists only in runs whose final status is completed,
\* under every interleaving of cancel calls with the task (here: in runs
\* with no failed write and no delete_user_data call)
C39_EventLogAgrees ==
    /\ [](WritesAndStoreIntact => LastEventIsStatus /\ CompletedEventOnlyInCompleted)
    /\ [][WritesAndStoreIntact' => NoEventAfterTerminal]_vars

\* the same without a cancel call
C39_WithoutCancel ==
    /\ [](WritesAndStoreIntact /\ counters.cancel = 0
            => LastEventIsStatus /\ CompletedEventOnlyInCompleted)
    /\ [][WritesAndStoreIntact' => NoEventAfterTerminal]_vars

\* a cancel that landed between the 'completed' event and the final update
CancelAfterCompletedEvent ==
    \E r \in DOMAIN RunStoreRead :
        /\ runFile[r].status = "completed"
        /\ LastEvent(runFile[r]).phase = "cancelling"
        /\ HasEvent(runFile[r], "completed")
        /\ WritesAndStoreIntact

\* runs that end completed, failed and cancelled with the matching event
TerminalWithMatchingEvent(status) ==
    \E r \in DOMAIN RunStoreRead :
        /\ runFile[r].status = status /\ exec[r].pc = "done"
        /\ LastEvent(runFile[r]).phase = status

(***************************************************************************)
(* The progress values of the event log of one run: the events of          *)
(* executeSearchRun and executeSearchQuery in program order, for a scan    *)
(* target and a number of wanted jobs up to MaxProgressJobs, with a cancel *)
(* call at any point.  With at most three raw jobs every quotient below is *)
(* exact, as the float64 quotients of the source are.                      *)
(***************************************************************************)
MaxProgressJobs == 3

\* search_query.go:107: 15.0 + 60.0*len(rawJobs)/max(1, rawScanTarget)
scrapeProgressPercent(rawJobs, target) == 15 + ((60 * rawJobs) \div Max2(1, target))

\* search_query.go:326: 76.0 + 18.0*(idx+1)/max(1, len(rawJobs))
filterProgressPercent(idx, rawJobs) == 76 + ((18 * (idx + 1)) \div Max2(1, rawJobs))

ProgressEntry(target, required) ==
    [op |-> "progress", pc |-> "running", target |-> target, required |-> required,
     raw |-> 0, idx |-> 0, fetches |-> 0, accepted |-> 0, err |-> "",
     run |-> NewRun(1, "u1", 0)]

ProgressArgs ==
    {ProgressEntry(target, required) :
        target \in 1..MaxProgressJobs, required \in 1..MaxProgressJobs}

\* onProgress: updateRun with appendRunEvent
Emit(phase, progressPercent, pc) ==
    pure' = [pure EXCEPT !.run = appendRunEvent(@, now, phase, progressPercent),
                         !.pc = pc]

ProgressStopped ==
    pure' = [pure EXCEPT !.pc = "error", !.err = "cancelled"]

ProgressFailed(errText) ==
    pure' = [pure EXCEPT !.pc = "error", !.err = errText]

\* part_008:21-25
ProgressRunning ==
    /\ pure.op = "progress" /\ pure.pc = "running"
    /\ pure' = [pure EXCEPT !.run = RunningUpdater(@, now), !.pc = "dataset"]
    /\ IgnoreUnchanged

\* the dataset events, then search_query.go:68
ProgressDataset ==
    /\ pure.op = "progress" /\ pure.pc \in {"dataset", "dataset_warn", "scrape"}
    /\ \/ pure.pc = "dataset" /\ \E pc \in {"dataset_warn", "scrape"} : Emit("dataset", 5, pc)
       \/ pure.pc = "dataset_warn" /\ Emit("dataset", 8, "scrape")
       \/ pure.pc = "scrape" /\ Emit("scrape", 15, "page")
    /\ IgnoreUnchanged

\* search_query.go:69-111: one round of the scrape loop
ProgressPage ==
    /\ pure.op = "progress" /\ pure.pc = "page"
    /\ IF pure.raw >= pure.target
       THEN pure' = [pure EXCEPT !.pc = "filter"]
       ELSE IF pure.run.cancel_requested
       THEN ProgressStopped
       ELSE \/ ProgressFailed("linkedin request failed")
            \/ pure' = [pure EXCEPT !.pc = "filter"]
            \/ \E added \in 1..(pure.target - pure.raw) :
                  pure' = [pure EXCEPT
                     !.raw = @ + added,
                     !.run = appendRunEvent(@, now, "scrape",
                                 scrapeProgressPercent(pure.raw + added, pure.target))]
    /\ IgnoreUnchanged

\* search_query.go:120
ProgressFilter ==
    /\ pure.op = "progress" /\ pure.pc = "filter"
    /\ Emit("filter", 76, "cand")
    /\ IgnoreUnchanged

\* search_query.go:126-216: the head of the candidate loop, up to the fetch
\* of the description
ProgressCandidate ==
    /\ pure.op = "progress" /\ pure.pc = "cand"
    /\ IF pure.idx >= pure.raw
       THEN pure' = [pure EXCEPT !.pc = "session"]
       ELSE IF pure.run.cancel_requested
       THEN ProgressStopped
       ELSE \E fetch \in BOOLEAN :
              IF ~fetch
              THEN pure' = [pure EXCEPT !.pc = "eval"]
              ELSE IF pure.fetches % 5 = 0
              THEN pure' = [pure EXCEPT
                              !.run = appendRunEvent(@, now, "filter", 80),
                              !.fetches = @ + 1, !.pc = "eval"]
              ELSE pure' = [pure EXCEPT !.fetches = @ + 1, !.pc = "eval"]
    /\ IgnoreUnchanged

\* search_query.go:217-335: the verdict on the candidate, the break and the
\* event of every 25th index
ProgressEvaluate ==
    /\ pure.op = "progress" /\ pure.pc = "eval"
    /\ \E accept \in BOOLEAN :
          IF ~accept
          THEN pure' = [pure EXCEPT !.idx = @ + 1, !.pc = "cand"]
          ELSE IF pure.accepted + 1 >= pure.required
          THEN pure' = [pure EXCEPT !.accepted = @ + 1, !.pc = "session"]
          ELSE IF pure.idx % 25 = 0
          THEN pure' = [pure EXCEPT
                          !.run = appendRunEvent(@, now, "filter",
                                      filterProgressPercent(pure.idx, pure.raw)),
                          !.accepted = @ + 1, !.idx = @ + 1, !.pc = "cand"]
          ELSE pure' = [pure EXCEPT !.accepted = @ + 1, !.idx = @ + 1, !.pc = "cand"]
    /\ IgnoreUnchanged

\* search_query.go:337-484: the session record, then the 'completed' event
ProgressSession ==
    /\ pure.op = "progress" /\ pure.pc \in {"session", "completed"}
    /\ \/ pure.pc = "session" /\ ProgressFailed("session save failed")
       \/ pure.pc = "session" /\ pure' = [pure EXCEPT !.pc = "completed"]
       \/ pure.pc = "completed" /\ Emit("completed", 100, "final")
    /\ IgnoreUnchanged

\* part_008:92-117: the final update of the run
ProgressFinish ==
    /\ pure.op = "progress" /\ pure.pc \in {"error", "final"}
    /\ pure' = [pure EXCEPT
                  !.run = IF pure.pc = "error" THEN ErrorUpdater(@, now, pure.err)
                          ELSE CompletedUpdater(@, now, SessionIdOf(1)),
                  !.pc = "done"]
    /\ IgnoreUnchanged

\* cancelJobSearch on the run, once
ProgressCancel ==
    /\ pure.op = "progress"
    /\ ~pure.run.cancel_requested
    /\ ~searchRunIsTerminal(pure.run.status)
    /\ pure' = [pure EXCEPT !.run = CancelUpdater(@, now)]
    /\ IgnoreUnchanged

ProgressNext ==
    \/ ProgressRunning
    \/ ProgressDataset
    \/ ProgressPage
    \/ ProgressFilter
    \/ ProgressCandidate
    \/ ProgressEvaluate
    \/ ProgressSession
    \/ ProgressFinish
    \/ ProgressCancel

ProgressInit ==
    /\ StoreInit /\ GateInit
    /\ seen = [polls |-> 0,
               runs |-> [r \in RunIds |-> [next_cursor |-> 0, events |-> EmptyDoc]]]
    /\ given = NothingGiven
    /\ pure \in ProgressArgs

ProgressSpec == ProgressInit /\ [][ProgressNext]_vars

\* the events of the log that carry a progress value, in event_id order
WithProgress(events) == SelectSeq(events, LAMBDA e : e.progress_percent # NoProgress)

NonDecreasing(events) ==
    \A j, k \in DOMAIN events :
        j < k => /\ events[j].event_id < events[k].event_id
                 /\ events[j].progress_percent <= events[k].progress_percent

ProgressInRange(events) ==
    \A k \in DOMAIN events : events[k].progress_percent \in 0..100

StartsAtZero(events) ==
    events # <<>> /\ events[1].phase = "started" /\ events[1].progress_percent = 0

EndsAtHundred(run, events) ==
    searchRunIsTerminal(run.status) => events[Len(events)].progress_percent = 100

\* C40: along the event log of a run the progress_percent values of the
\* events that carry one are non-decreasing in event_id order and lie in
\* 0..100, from 0 at 'started' to 100 at the terminal event
C40_ProgressNeverDecreases ==
    pure.op = "progress"
        => LET events == WithProgress(pure.run.events)
           IN /\ NonDecreasing(events)
              /\ ProgressInRange(events)
              /\ StartsAtZero(events)
              /\ EndsAtHundred(pure.run, events)

\* everything but the order holds
C40_RangeAndEnds ==
    pure.op = "progress"
        => LET events == WithProgress(pure.run.events)
           IN /\ ProgressInRange(events)
              /\ StartsAtZero(events)
              /\ EndsAtHundred(pure.run, events)

\* with one job wanted the first accepted job ends the loop, no event of the
\* 25th index is written, and the order holds
C40_OneWanted ==
    (pure.op = "progress" /\ pure.required = 1)
        => NonDecreasing(WithProgress(pure.run.events))

\* a description event at 80 after the event of an accepted candidate
C40_Decrease ==
    /\ pure.op = "progress"
    /\ \E k \in DOMAIN pure.run.events :
          /\ k > 1
          /\ pure.run.events[k].progress_percent = 80
          /\ pure.run.events[k - 1].progress_percent = filterProgressPercent(0, 2)

(***************************************************************************)
(* The specification of the pure functions: each step is one call.         *)
(***************************************************************************)
PageNext ==
    \/ SliceCall
    \/ SessionCall
    \/ ResultsCall

PageInit ==
    /\ StoreInit /\ GateInit
    /\ seen = [polls |-> 0,
               runs |-> [r \in RunIds |-> [next_cursor |-> 0, events |-> EmptyDoc]]]
    /\ pure \in SliceArgs \cup SessionArgs \cup ResultsArgs
    /\ given = NothingGiven

PageSpec == PageInit /\ [][PageNext]_vars
====
